---- MODULE Spec2Model ----
(***************************************************************************)
(* A model of the security layer of firebase-mcp: the Express middleware   *)
(* chain (authenticate, access control, rate limit, audit) installed by    *)
(* applySecurityMiddleware, together with the stores each middleware owns. *)
(*                                                                         *)
(* Time is Date.now() in milliseconds.  Strings that the code inspects     *)
(* character by character (resource patterns and resources) are sequences  *)
(* of symbols; a multi-letter symbol such as "users" stands for a run of   *)
(* ordinary characters (no "/" and no regular-expression special) that the *)
(* inputs of the model never split.                                        *)
(***************************************************************************)
EXTENDS Integers, Sequences, FiniteSets, TLC

VARIABLES
    now,            \* Date.now()
    clients,        \* AuthMiddleware.clients   : clientId -> Client
    mgrClients,     \* AuthManager.clients      : clientId -> Client
    sessions,       \* AuthMiddleware.sessions  : sessionId -> Session
    nextSid,        \* the next value crypto.randomBytes(16) yields (fresh)
    issuedTokens,   \* the JWTs signed so far with options.jwtSecret
    failedAttempts, \* AuthMiddleware.failedAttempts : ipKey -> {count, lastAttempt}
    failures,       \* history: ipKey -> the times recordFailedAttempt ran for it
    mintedActive,   \* history: the sessions created while the directory had
                    \* their client active
    rules,          \* AccessControl.rules      : sequence of AccessRule
    rulesStore,     \* what the constructor found at options.rulesConfigPath
    acCall,         \* the last checkAccess call made directly, and its result
    matchCall,      \* a matchPattern call: its arguments and its result
    clientLimits,   \* RateLimiter.clientLimits : clientId -> ClientRateLimit
    buckets,        \* RateLimiter.buckets      : <<clientId, operation>> -> TokenBucket
    rlCall,         \* the last checkLimit call made directly, and its result
    served,         \* the <<clientId, tool>> pairs rateLimitMiddleware has admitted
    logQueue,       \* AuditLogger.logQueue
    isProcessingQueue, \* AuditLogger.isProcessingQueue
    drainLoops,     \* the processLogQueue calls that are past the guard and
                    \* have not returned: running, or waiting at the await
    logFile,        \* the lines writeLog has written, oldest first
    logDir,         \* options.logDir: file name -> the numbers of its lines in logFile
    currentLogFile, \* AuditLogger.currentLogFile: the day in its name
    currentLogStream, \* AuditLogger.currentLogStream: "null", "open", or
                    \* "unlinked" when its file was removed under it
    logCount,       \* AuditLogger.logCount
    compressJob,    \* the compressLogFile pipeline in flight, if any
    queryCall,      \* the last queryLogs call and its result
    redactCall,     \* the last two entries logged together, as they were passed
    req,            \* the request the middleware chain is handling
    ctx,            \* what the chain has attached to req and res so far
    pc,             \* the middleware the request is at
    app,            \* the middleware stack of the Express application
    budget,         \* how many more requests the model lets arrive
    ticks           \* how many more steps the model lets the clock take

vars == <<now, clients, mgrClients, sessions, nextSid, issuedTokens,
          failedAttempts, failures, mintedActive, rules, rulesStore, acCall, matchCall, clientLimits, buckets, rlCall, served,
          logQueue,
          isProcessingQueue, drainLoops, logFile, logDir, currentLogFile,
          currentLogStream, logCount, compressJob, queryCall, redactCall, req, ctx, pc, app, budget, ticks>>

dirVars == <<clients, mgrClients>>
sessVars == <<nextSid, issuedTokens, failedAttempts, failures, mintedActive>>
authVars == <<dirVars, sessions, sessVars>>
accessVars == <<rules, rulesStore, acCall, matchCall>>
limiterVars == <<clientLimits, buckets, rlCall, served>>
auditVars == <<logQueue, isProcessingQueue, drainLoops, logFile, logDir, currentLogFile,
               currentLogStream, logCount, compressJob, queryCall, redactCall>>
reqVars == <<req, ctx, pc, app, budget>>
envVars == <<now, ticks>>

-----------------------------------------------------------------------------
(* Bounds of the model *)

MaxRequests == 3        \* Spec: requests sent through the whole chain
MaxTicks == 1           \* Spec: steps of the clock
MaxAuthRequests == 6    \* SpecAuth: requests sent to authenticate
MaxAuthTicks == 2       \* SpecAuth: steps of the clock
MaxSessionRequests == 2 \* SpecSession: requests sent to authenticate
MaxSessionTicks == 3    \* SpecSession: steps of the clock
MaxSessions == 2        \* session identifiers

-----------------------------------------------------------------------------
(* Values *)

None == "none"                  \* undefined: an absent header, field or entry
ClientIds == {"c1", "c2"}
Ips == {"ip1"}
\* the API key that was handed out for a client when it was added
KeyOf(c) == IF c = "c1" THEN "k1" ELSE "k2"
ApiKeys == {KeyOf(c) : c \in ClientIds}

Min(a, b) == IF a <= b THEN a ELSE b
Max(a, b) == IF a >= b THEN a ELSE b
Remove(f, k) == [x \in (DOMAIN f) \ {k} |-> f[x]]
Put(f, k, v) == [x \in (DOMAIN f) \cup {k} |-> IF x = k THEN v ELSE f[x]]

-----------------------------------------------------------------------------
(* AccessControl (accessControl.ts) *)

\* DEFAULT_OPTIONS.defaultDeny
defaultDeny == TRUE

\* The characters String.replace escapes in matchPattern's first step.
RegexSpecial == {"-", "/", "\\", "^", "$", "*", "+", "?", ".", "(", ")", "|",
                 "[", "]", "{", "}"}

\* The index of the "}" that closes a {param} placeholder opened at p[i], or 0.
\* After escaping, "{" is "\{" and "}" is "\}"; the third replace takes "\{",
\* one or more characters that are neither a backslash nor "}", and "\}".  An
\* escaped special character carries a backslash, so the characters between
\* the braces are ordinary ones, or "*" (already rewritten to ".*").
ParamEnd(p, i) ==
    LET ends == {j \in (i + 2)..Len(p) :
                    /\ p[j] = "}"
                    /\ \A k \in (i + 1)..(j - 1) :
                          p[k] = "*" \/ p[k] \notin RegexSpecial}
    IN  IF p[i] = "{" /\ ends # {} THEN CHOOSE j \in ends : \A k \in ends : j <= k
        ELSE 0

\* The regular expression matchPattern builds from a pattern, as a sequence
\* of pieces: "any" is ".*", "seg" is "([^/]+)", "lit" is one literal
\* (escaped where needed) character.
RECURSIVE RegexPieces(_, _)
RegexPieces(p, i) ==
    IF i > Len(p) THEN <<>>
    ELSE IF p[i] = "*" THEN <<[t |-> "any", c |-> "*"]>> \o RegexPieces(p, i + 1)
    ELSE IF ParamEnd(p, i) # 0
         THEN <<[t |-> "seg", c |-> "{"]>> \o RegexPieces(p, ParamEnd(p, i) + 1)
    ELSE <<[t |-> "lit", c |-> p[i]]>> \o RegexPieces(p, i + 1)

\* regex.test(resource) for the anchored expression ^pieces$, from position i.
RECURSIVE RegexTest(_, _, _)
RegexTest(pieces, s, i) ==
    IF pieces = <<>> THEN i = Len(s) + 1
    ELSE LET h == Head(pieces)
             rest == Tail(pieces)
         IN  CASE h.t = "lit" ->
                    /\ i <= Len(s)
                    /\ s[i] = h.c
                    /\ RegexTest(rest, s, i + 1)
               [] h.t = "any" ->
                    \E j \in i..(Len(s) + 1) : RegexTest(rest, s, j)
               [] h.t = "seg" ->
                    \E j \in (i + 1)..(Len(s) + 1) :
                        /\ \A k \in i..(j - 1) : s[k] # "/"
                        /\ RegexTest(rest, s, j)

\* A test that would not be anchored at the end of the resource.
matchPatternOfPrefix(pattern, resource) ==
    \E j \in 0..Len(resource) :
        RegexTest(RegexPieces(pattern, 1), SubSeq(resource, 1, j), 1)

matchPattern(pattern, resource) ==
    RegexTest(RegexPieces(pattern, 1), resource, 1)

\* JavaScript values held by conditions and request contexts are written as
\* strings tagged with their type: "b:false", "n:0", "s:" (the empty string),
\* "s:users", ...; None is undefined.
Falsy(v) == v \in {None, "b:false", "n:0", "s:", "null"}

\* context[field]
Lookup(context, field) ==
    IF field \in DOMAIN context THEN context[field] ELSE None

\* rule.conditions: `defined` is whether the rule carries conditions at all,
\* `hasFields` whether conditions.fields is there, `fields` its entries.
NoConditions == [defined |-> FALSE, hasFields |-> FALSE, fields |-> <<>>]
FieldConditions(f) == [defined |-> TRUE, hasFields |-> TRUE, fields |-> f]

\* The rule grants by itself (lines 200-217 of the loop body).
RuleGrants(rule, context) ==
    IF ~rule.conditions.defined THEN TRUE
    ELSE IF rule.conditions.hasFields
         THEN \A field \in DOMAIN rule.conditions.fields :
                 /\ ~Falsy(Lookup(context, field))
                 /\ Lookup(context, field) = rule.conditions.fields[field]
    ELSE FALSE

\* A filter that would take the rules of every client.
MatchingRulesOfAnyClient(rs, clientId, resource, action) ==
    SelectSeq(rs, LAMBDA rule :
        /\ matchPattern(rule.resource, resource)
        /\ action \in rule.actions)

\* this.rules.filter(...) of checkAccess
MatchingRules(rs, clientId, resource, action) ==
    SelectSeq(rs, LAMBDA rule :
        /\ rule.clientId = clientId
        /\ matchPattern(rule.resource, resource)
        /\ action \in rule.actions)

\* The loop of lines 199-221 from the i-th matching rule on: the first rule
\* that grants returns true, the end of the list returns false.
RECURSIVE RulesLoop(_, _, _)
RulesLoop(matchingRules, i, context) ==
    IF i > Len(matchingRules) THEN FALSE
    ELSE IF RuleGrants(matchingRules[i], context) THEN TRUE
    ELSE RulesLoop(matchingRules, i + 1, context)

\* A check that would let the first matching rule decide.
checkAccessFirstMatch(rs, clientId, resource, action, context) ==
    LET matchingRules == MatchingRules(rs, clientId, resource, action)
    IN  IF Len(matchingRules) = 0 THEN ~defaultDeny
        ELSE RuleGrants(matchingRules[1], context)

checkAccessIn(rs, clientId, resource, action, context) ==
    LET matchingRules == MatchingRules(rs, clientId, resource, action)
    IN  IF Len(matchingRules) = 0 THEN ~defaultDeny
        ELSE RulesLoop(matchingRules, 1, context)

checkAccess(clientId, resource, action, context) ==
    checkAccessIn(rules, clientId, resource, action, context)

\* No matchPattern call is being followed.
NoMatchCall == [called |-> FALSE, pattern |-> <<>>, resource |-> <<>>, result |-> FALSE]

\* No checkAccess call has been made since the rules last changed.
NoCall ==
    [called |-> FALSE, clientId |-> None, resource |-> <<>>, action |-> None,
     context |-> <<>>, result |-> FALSE,
     rule |-> [clientId |-> None, resource |-> <<>>, actions |-> {},
               conditions |-> NoConditions]]

-----------------------------------------------------------------------------
(* AuthMiddleware (authMiddleware.ts) *)

LockoutThreshold == 5
LockoutWindowMs == 15 * 60 * 1000
\* DEFAULT_OPTIONS.tokenExpirationMinutes
tokenExpirationMinutes == 60

\* crypto.createHash("sha256").update(apiKey).digest("hex"): one-way, and
\* different from the key it hashes.
hashApiKey(apiKey) ==
    CASE apiKey = "k1" -> "sha256:k1"
      [] apiKey = "k2" -> "sha256:k2"
      [] OTHER -> "sha256:?"

validateApiKey(clientId, apiKey) ==
    IF clientId \notin DOMAIN clients \/ clients[clientId].status # "active"
    THEN FALSE
    ELSE hashApiKey(apiKey) = clients[clientId].apiKey

\* Absent values of the request and of what the chain attaches to it.
NoSid == 0
NoToken == [clientId |-> None, exp |-> 0, sig |-> None]
NoAuth == [clientId |-> None, sessionId |-> NoSid]
NoError == [code |-> None, message |-> None]
NullPayload == [clientId |-> None]

\* jwt.sign({clientId}, secret, {expiresIn}): iat and exp are in seconds; sig
\* says whose secret signed the token.
generateToken(clientId) ==
    [clientId |-> clientId,
     exp |-> (now \div 1000) + tokenExpirationMinutes * 60,
     sig |-> "jwtSecret"]

\* jwt.verify: the payload when the signature is ours and the token has not
\* expired (clockTimestamp >= exp is expired), else null.
verifyToken(token) ==
    IF token.sig = "jwtSecret" /\ (now \div 1000) < token.exp
    THEN [clientId |-> token.clientId]
    ELSE NullPayload

\* A session whose lifetime would be counted in seconds, as the token's is.
createSessionInSeconds(clientId) ==
    [sessionId |-> nextSid,
     clientId |-> clientId,
     token |-> generateToken(clientId),
     createdAt |-> now,
     expiresAt |-> now + tokenExpirationMinutes * 60,
     lastUsed |-> now]

\* The Session object createSession builds.
createSession(clientId) ==
    [sessionId |-> nextSid,
     clientId |-> clientId,
     token |-> generateToken(clientId),
     createdAt |-> now,
     expiresAt |-> now + tokenExpirationMinutes * 60 * 1000,
     lastUsed |-> now]

recordFailedAttempt(fa, ipKey) ==
    IF ipKey \in DOMAIN fa
    THEN [fa EXCEPT ![ipKey] = [count |-> @.count + 1, lastAttempt |-> now]]
    ELSE Put(fa, ipKey, [count |-> 1, lastAttempt |-> now])

\* `${clientIp}:${clientId || "anonymous"}`
IpKeyOf(r) == r.ip \o ":" \o (IF r.clientId = None THEN "anonymous" ELSE r.clientId)

\* A counter that would be dropped by whatever attempt comes next.
ResetAtNextAttempt(fa, ipKey) == Remove(fa, ipKey)

\* Lines 257-263: the entry is dropped once its last failure is older than
\* the window.
ResetAfterWindow(fa, ipKey) ==
    IF ipKey \in DOMAIN fa /\ now - fa[ipKey].lastAttempt > LockoutWindowMs
    THEN Remove(fa, ipKey)
    ELSE fa

\* A lockout that would wait for one failure more than the threshold.
LockedOutAboveThreshold(fa, ipKey) ==
    /\ ipKey \in DOMAIN fa
    /\ ~(now - fa[ipKey].lastAttempt > LockoutWindowMs)
    /\ fa[ipKey].count > LockoutThreshold

\* Lines 257-270: the request is refused before any credential is looked at.
LockedOut(fa, ipKey) ==
    /\ ipKey \in DOMAIN fa
    /\ ~(now - fa[ipKey].lastAttempt > LockoutWindowMs)
    /\ fa[ipKey].count >= LockoutThreshold

\* A session that would be honoured for one more half lifetime past expiresAt.
SessionExpiredAfterGrace(session) ==
    session.expiresAt + (tokenExpirationMinutes * 60 * 1000) \div 2 < now

\* Line 283: session.expiresAt < Date.now()
SessionExpired(session) == session.expiresAt < now

\* A use that would also push the expiry of the session forward.
touchSessionSliding(session) ==
    [session EXCEPT !.lastUsed = now,
                    !.expiresAt = now + tokenExpirationMinutes * 60 * 1000]

\* Line 289: session.lastUsed = Date.now()
touchSession(session) == [session EXCEPT !.lastUsed = now]

\* A request authenticate refuses with next(error).  `recorded` tells whether
\* recordFailedAttempt ran on the way: it leaves the counters changed.
AuthFailure(fa, ss, message) ==
    [fa |-> fa, sessions |-> ss, minted |-> NoSid, auth |-> NoAuth,
     headers |-> {}, mode |-> None, recorded |-> fa # failedAttempts,
     err |-> [code |-> "MethodNotFound", message |-> message]]

\* A precedence that would look at the bearer token before the client secret.
ModeOfTokenFirst(r) ==
    IF r.sessionId # NoSid THEN "session"
    ELSE IF r.token # NoToken THEN "token"
    ELSE IF r.clientId # None /\ r.apiKey # None THEN "apiKey"
    ELSE None

\* The credential mode authenticate takes for a request that is not locked out.
ModeOf(r) ==
    IF r.sessionId # NoSid THEN "session"
    ELSE IF r.clientId # None /\ r.apiKey # None THEN "apiKey"
    ELSE IF r.token # NoToken THEN "token"
    ELSE None

\* What authenticate(req, res, next) does for request r: the new failure
\* counters and session table, the session it minted, req.auth, the response
\* headers it set and the error it passes to next (None for next()).
AuthOutcome(r) ==
    LET ipKey == IpKeyOf(r)
        fa == ResetAfterWindow(failedAttempts, ipKey)
        mode == ModeOf(r)
    IN  IF LockedOut(failedAttempts, ipKey)
        THEN [AuthFailure(failedAttempts, sessions,
                "Too many failed authentication attempts. Try again later.")
                EXCEPT !.mode = "locked"]
        ELSE IF mode = "session"
        THEN IF r.sessionId \notin DOMAIN sessions
             THEN [AuthFailure(recordFailedAttempt(fa, ipKey), sessions,
                     "Invalid session") EXCEPT !.mode = mode]
             ELSE IF SessionExpired(sessions[r.sessionId])
             THEN [AuthFailure(recordFailedAttempt(fa, ipKey),
                     Remove(sessions, r.sessionId), "Session expired")
                     EXCEPT !.mode = mode]
             ELSE [fa |-> fa,
                   sessions |-> [sessions EXCEPT ![r.sessionId] = touchSession(@)],
                   minted |-> NoSid,
                   auth |-> [clientId |-> sessions[r.sessionId].clientId,
                             sessionId |-> r.sessionId],
                   headers |-> {}, mode |-> mode, recorded |-> FALSE,
                   err |-> NoError]
        ELSE IF mode = "apiKey"
        THEN IF ~validateApiKey(r.clientId, r.apiKey)
             THEN [AuthFailure(recordFailedAttempt(fa, ipKey), sessions,
                     "Invalid API key") EXCEPT !.mode = mode]
             ELSE LET session == createSession(r.clientId)
                  IN  [fa |-> fa,
                       sessions |-> Put(sessions, session.sessionId, session),
                       minted |-> session.sessionId,
                       auth |-> [clientId |-> r.clientId,
                                 sessionId |-> session.sessionId],
                       headers |-> {"x-session-id", "x-auth-token"},
                       mode |-> mode, recorded |-> FALSE, err |-> NoError]
        ELSE IF mode = "token"
        THEN IF verifyToken(r.token) = NullPayload
             THEN [AuthFailure(recordFailedAttempt(fa, ipKey), sessions,
                     "Invalid token") EXCEPT !.mode = mode]
             ELSE LET payload == verifyToken(r.token)
                      session == createSession(payload.clientId)
                  IN  [fa |-> fa,
                       sessions |-> Put(sessions, session.sessionId, session),
                       minted |-> session.sessionId,
                       auth |-> [clientId |-> payload.clientId,
                                 sessionId |-> session.sessionId],
                       headers |-> {"x-session-id"},
                       mode |-> mode, recorded |-> FALSE, err |-> NoError]
        ELSE AuthFailure(recordFailedAttempt(fa, ipKey), sessions,
                "Authentication required")

-----------------------------------------------------------------------------
(* RateLimiter (rateLimiter.ts) *)

\* Token counts are kept in units of 1/60000 token, so that the refill rate
\* requestsPerMinute / 60000 tokens per millisecond is the whole number
\* requestsPerMinute of units per millisecond.
TokenScale == 60 * 1000

\* DEFAULT_OPTIONS.defaultLimits
defaultLimits == [requestsPerMinute |-> 60, burstCapacity |-> 10]

\* getRateLimitConfig that never looks at clientLimit.operations.
getRateLimitConfigGlobalOnly(clientId, operation) ==
    IF clientId \notin DOMAIN clientLimits THEN defaultLimits
    ELSE clientLimits[clientId].global

\* clientLimit.operations[operation] || clientLimit.global
getRateLimitConfig(clientId, operation) ==
    IF clientId \notin DOMAIN clientLimits THEN defaultLimits
    ELSE IF operation \in DOMAIN clientLimits[clientId].operations
         THEN clientLimits[clientId].operations[operation]
         ELSE clientLimits[clientId].global

\* the bucket getBucket creates when the key has none
NewBucket(clientId, operation) ==
    LET config == getRateLimitConfig(clientId, operation)
    IN  [tokens |-> config.burstCapacity * TokenScale,
         lastRefill |-> now,
         capacity |-> config.burstCapacity * TokenScale,
         refillRate |-> config.requestsPerMinute]

\* this.buckets after getBucket(clientId, operation)
getBucket(bs, clientId, operation) ==
    IF <<clientId, operation>> \notin DOMAIN bs
    THEN Put(bs, <<clientId, operation>>, NewBucket(clientId, operation))
    ELSE bs

\* refillBucket adding the tokens without the cap.
refillBucketUncapped(bucket) ==
    LET timeElapsed == now - bucket.lastRefill
    IN  IF timeElapsed > 0
        THEN [bucket EXCEPT !.tokens = @ + timeElapsed * bucket.refillRate,
                            !.lastRefill = now]
        ELSE bucket

\* Math.min(capacity, tokens + timeElapsed * refillRate), without forming a
\* product larger than the capacity
refillBucket(bucket) ==
    LET timeElapsed == now - bucket.lastRefill
    IN  IF timeElapsed > 0
        THEN [bucket EXCEPT
                !.tokens =
                    IF bucket.refillRate > 0 /\
                       timeElapsed >= ((bucket.capacity - @) \div bucket.refillRate) + 1
                    THEN bucket.capacity
                    ELSE Min(bucket.capacity, @ + timeElapsed * bucket.refillRate),
                !.lastRefill = now]
        ELSE bucket

\* checkLimit admitting only above one whole token.
checkLimitAboveOne(bs, clientId, operation) ==
    LET key == <<clientId, operation>>
        bs1 == getBucket(bs, clientId, operation)
        bucket == refillBucket(bs1[key])
    IN  IF bucket.tokens > TokenScale
        THEN [ok |-> TRUE,
              buckets |-> [bs1 EXCEPT ![key] =
                              [bucket EXCEPT !.tokens = @ - TokenScale]]]
        ELSE [ok |-> FALSE, buckets |-> [bs1 EXCEPT ![key] = bucket]]

\* checkLimit(clientId, operation): whether the call is admitted, and
\* this.buckets afterwards
checkLimit(bs, clientId, operation) ==
    LET key == <<clientId, operation>>
        bs1 == getBucket(bs, clientId, operation)
        bucket == refillBucket(bs1[key])
    IN  IF bucket.tokens >= TokenScale
        THEN [ok |-> TRUE,
              buckets |-> [bs1 EXCEPT ![key] =
                              [bucket EXCEPT !.tokens = @ - TokenScale]]]
        ELSE [ok |-> FALSE, buckets |-> [bs1 EXCEPT ![key] = bucket]]

\* A wait time that would be rounded down to whole seconds.
getWaitTimeFloor(bs, clientId, operation) ==
    LET bucket == bs[<<clientId, operation>>]
        tokensNeeded == TokenScale - bucket.tokens
    IN  IF bucket.tokens >= TokenScale THEN 0
        ELSE IF bucket.refillRate = 0 THEN -1
        ELSE tokensNeeded \div (bucket.refillRate * 1000)

\* getWaitTime(clientId, operation) on an existing bucket, in seconds:
\* Math.ceil(((1 - tokens) / refillRate) / 1000); -1 stands for Infinity
getWaitTime(bs, clientId, operation) ==
    LET bucket == bs[<<clientId, operation>>]
        tokensNeeded == TokenScale - bucket.tokens
    IN  IF bucket.tokens >= TokenScale THEN 0
        ELSE IF bucket.refillRate = 0 THEN -1
        ELSE (tokensNeeded + bucket.refillRate * 1000 - 1)
                 \div (bucket.refillRate * 1000)

-----------------------------------------------------------------------------
(* AuditLogger (auditLogger.ts) *)

\* log(entry): the entry is queued, and when no drain loop is active
\* processLogQueue runs up to its first await: it takes the flag and writes
\* the first batch (at most 100 entries).
BatchSize == 100

\* writeLog looks at the size of the file once logCount exceeds this.
SizeCheckEvery == 1000

\* DEFAULT_OPTIONS.compress
compress == TRUE

\* The rotation interval of the default "daily" frequency.
DayMs == 24 * 60 * 60 * 1000

\* audit-<date>-00.log and audit-<date>-00.log.gz, the date as a day number.
\* The pair orders as the names do: day first, and .log before .log.gz.
LogName(day) == <<day, 0>>
GzName(day) == <<day, 1>>

NoJob == [state |-> "none", file |-> 0, content |-> <<>>]

\* The values of a logged object: a string, a number, null, or an object or
\* array with its entries as <<key, value>> pairs in their order.  A key is
\* the sequence of the pieces it is written with ("user", "Password").
Str(s) == [t |-> "string", v |-> s, kids |-> <<>>]
Num(s) == [t |-> "number", v |-> s, kids |-> <<>>]
Null == [t |-> "null", v |-> "", kids |-> <<>>]
Obj(entries) == [t |-> "object", v |-> "", kids |-> entries]
Arr(entries) == [t |-> "array", v |-> "", kids |-> entries]

\* No pair of entries is being followed.
NoRedactCall ==
    [called |-> FALSE, first |-> 0,
     a |-> [clientId |-> None, operation |-> None, status |-> None,
            metadata |-> Obj(<<>>)],
     b |-> [clientId |-> None, operation |-> None, status |-> None,
            metadata |-> Obj(<<>>)]]

\* No queryLogs call is being followed.
\* A criteria object: `keys` are the keys Object.entries finds in it, each
\* with its value, which may be undefined; {} has none.
NoCriteria ==
    [keys |-> {}, clientId |-> None, operation |-> None, resource |-> None,
     status |-> None]

NoQueryCall ==
    [called |-> FALSE, via |-> None, criteria |-> NoCriteria, clientId |-> None,
     limit |-> 0, offset |-> 0, result |-> <<>>]

\* The fields of the AuditLogger and the files of its directory.
LogState ==
    [logQueue |-> logQueue, isProcessingQueue |-> isProcessingQueue,
     drainLoops |-> drainLoops,
     logFile |-> logFile, logDir |-> logDir, currentLogFile |-> currentLogFile,
     currentLogStream |-> currentLogStream, logCount |-> logCount,
     compressJob |-> compressJob]

\* rotateLog(): the stream is ended and the file is named after today.
rotateLog(st) ==
    [st EXCEPT !.currentLogStream = "null",
               !.currentLogFile = now \div DayMs,
               !.logCount = 0]

\* DEFAULT_OPTIONS.sensitiveFields
sensitiveFields ==
    {<<"password">>, <<"token">>, <<"api", "Key">>, <<"secret">>, <<"credential">>}

\* String.prototype.toLowerCase on the pieces keys are written with
LowerPiece(p) ==
    CASE p = "Password" -> "password"
      [] p = "TOKEN" -> "token"
      [] p = "Key" -> "key"
      [] p = "Secret" -> "secret"
      [] OTHER -> p

toLowerCase(key) == [i \in 1..Len(key) |-> LowerPiece(key[i])]

\* String.prototype.includes
Includes(text, part) ==
    \E i \in 0..(Len(text) - Len(part)) : SubSeq(text, i + 1, i + Len(part)) = part

\* sensitiveFields.some(field => key.toLowerCase().includes(field.toLowerCase()))
IsSensitiveKey(key) ==
    \E field \in sensitiveFields : Includes(toLowerCase(key), toLowerCase(field))

\* sanitizeObject(obj)
RECURSIVE sanitizeObject(_)
sanitizeObject(obj) ==
    IF obj.t \notin {"object", "array"} THEN obj
    ELSE [obj EXCEPT
            !.kids =
                [i \in 1..Len(obj.kids) |->
                    IF IsSensitiveKey(obj.kids[i][1])
                    THEN <<obj.kids[i][1],
                           IF obj.kids[i][2].t = "string"
                           THEN Str("[REDACTED]")
                           ELSE Str("[REDACTED OBJECT]")>>
                    ELSE IF obj.kids[i][2].t \in {"object", "array"}
                    THEN <<obj.kids[i][1], sanitizeObject(obj.kids[i][2])>>
                    ELSE obj.kids[i]]]

\* sanitizeObject on the entry itself: clientId, operation and status are
\* strings under keys that are not sensitive, metadata is an object.
sanitizeLog(log) == [log EXCEPT !.metadata = sanitizeObject(@)]

\* The first lines of writeLog, for each entry of `batch` in turn: the
\* stream is opened on currentLogFile in append mode when there is none, the
\* line is written and counted.  A stream whose file was unlinked writes to
\* no file of the directory.
writeLines(st, batch) ==
    LET stream == IF st.currentLogStream = "null" /\ batch # <<>> THEN "open"
                  ELSE st.currentLogStream
        name == LogName(st.currentLogFile)
        lines == IF name \in DOMAIN st.logDir THEN st.logDir[name] ELSE <<>>
        written == [i \in 1..Len(batch) |-> Len(st.logFile) + i]
    IN  [st EXCEPT
           !.logFile = @ \o [i \in 1..Len(batch) |-> sanitizeLog(batch[i])],
           !.logDir = IF stream = "open" /\ batch # <<>>
                      THEN Put(@, name, lines \o written)
                      ELSE @,
           !.currentLogStream = stream,
           !.logCount = @ + Len(batch)]

\* The rest of writeLog once logCount exceeds 1000.  `big` is whether
\* statSync reports at least maxLogFileSizeMB; statSync throws, and is
\* ignored, when the path does not exist.
sizeCheck(st, big) ==
    IF LogName(st.currentLogFile) \in DOMAIN st.logDir /\ big
    THEN [rotateLog(st) EXCEPT
            !.compressJob =
                IF compress
                THEN [state |-> "started", file |-> now \div DayMs,
                      content |-> <<>>]
                ELSE @]
    ELSE [st EXCEPT !.logCount = 0]

\* writeLog(log)
writeLog(st, entry, big) ==
    IF st.logCount + 1 > SizeCheckEvery
    THEN sizeCheck(writeLines(st, <<entry>>), big)
    ELSE writeLines(st, <<entry>>)

\* writeLog for each entry of a batch, in order: the size is looked at after
\* the write that takes logCount over 1000, and the count starts again.
RECURSIVE writeLogs(_, _, _)
writeLogs(st, batch, big) ==
    IF st.logCount + Len(batch) <= SizeCheckEvery
    THEN writeLines(st, batch)
    ELSE writeLogs(
             sizeCheck(writeLines(st, SubSeq(batch, 1,
                                             SizeCheckEvery + 1 - st.logCount)),
                       big),
             SubSeq(batch, SizeCheckEvery + 2 - st.logCount, Len(batch)), big)

\* processLogQueue from its call to its first await, the guard passed: the
\* flag is set and the first batch is spliced off the queue and written.
startDrain(st, big) ==
    LET n == Min(BatchSize, Len(st.logQueue))
    IN  [writeLogs(st, SubSeq(st.logQueue, 1, n), big) EXCEPT
           !.logQueue = SubSeq(st.logQueue, n + 1, Len(st.logQueue)),
           !.isProcessingQueue = TRUE,
           !.drainLoops = @ + 1]

\* A log that would start a drain loop whether or not one is active.
AuditLogUnguarded(st, entry, big) ==
    startDrain([st EXCEPT !.logQueue = Append(@, entry)], big)

\* log(entry): the entry is queued, and when no drain loop is active
\* processLogQueue runs up to its first await.
AuditLog(st, entry, big) ==
    IF st.isProcessingQueue
    THEN [st EXCEPT !.logQueue = Append(@, entry)]
    ELSE startDrain([st EXCEPT !.logQueue = Append(@, entry)], big)

\* log(entry) n times in a row: the first call may start the drain loop,
\* which is then active, so the later calls only queue their entry.
AuditLogTimes(st, entry, n, big) ==
    IF n = 0 THEN st
    ELSE [AuditLog(st, entry, big) EXCEPT
            !.logQueue = @ \o [i \in 1..(n - 1) |-> entry]]

\* The fields of the logger and its files become those of st.
LoggerIs(st) ==
    /\ logQueue' = st.logQueue
    /\ isProcessingQueue' = st.isProcessingQueue
    /\ drainLoops' = st.drainLoops
    /\ logFile' = st.logFile
    /\ logDir' = st.logDir
    /\ currentLogFile' = st.currentLogFile
    /\ currentLogStream' = st.currentLogStream
    /\ logCount' = st.logCount
    /\ compressJob' = st.compressJob

\* The same, and no call is followed any longer.
LoggerBecomes(st) ==
    /\ LoggerIs(st)
    /\ queryCall' = NoQueryCall
    /\ redactCall' = NoRedactCall

\* The names queryLogs reads, in its order: sorted, then reversed.
NameBefore(a, b) == a[1] < b[1] \/ (a[1] = b[1] /\ a[2] < b[2])

RECURSIVE SortedReversed(_)
SortedReversed(names) ==
    IF names = {} THEN <<>>
    ELSE LET last == CHOOSE a \in names : \A b \in names \ {a} : NameBefore(b, a)
         IN  <<last>> \o SortedReversed(names \ {last})

\* log[key] of a parsed line.  The model's entries carry no resource: log()
\* stores the default "unknown" for a caller that gives none (line 319).
FieldOf(log, key) ==
    IF key \in DOMAIN log THEN log[key] ELSE "unknown"

\* A comparison that would pass over the criteria whose value is undefined.
MatchesCriteriaDefined(log, criteria) ==
    \A key \in criteria.keys :
        criteria[key] = None \/ FieldOf(log, key) = criteria[key]

\* Lines 453-458: every entry of Object.entries(criteria), a key whose value
\* is undefined included, is compared with !==.
MatchesCriteria(log, criteria) ==
    \A key \in criteria.keys : FieldOf(log, key) = criteria[key]

\* The lines of a file that match the criteria, in the order of the file.
MatchingLines(file, lines, criteria) ==
    LET Matches(i) == MatchesCriteria(file[i], criteria)
    IN  SelectSeq(lines, Matches)

RECURSIVE MatchesOfFiles(_, _, _, _)
MatchesOfFiles(dir, file, names, criteria) ==
    IF names = <<>> THEN <<>>
    ELSE MatchingLines(file, dir[Head(names)], criteria)
         \o MatchesOfFiles(dir, file, Tail(names), criteria)

\* queryLogs(criteria, limit, offset), the criteria being the object the
\* caller built: the numbers of the lines returned, in the order returned.
queryLogsBy(criteria, limit, offset) ==
    LET all == MatchesOfFiles(logDir, logFile, SortedReversed(DOMAIN logDir),
                              criteria)
    IN  IF limit <= 0 THEN <<>>
        ELSE SubSeq(all, offset + 1, Min(Len(all), offset + limit))

\* The criteria object of a caller that filters on a clientId or on nothing.
CriteriaOf(clientId) ==
    IF clientId = None THEN NoCriteria
    ELSE [NoCriteria EXCEPT !.keys = {"clientId"}, !.clientId = clientId]

queryLogs(clientId, limit, offset) ==
    queryLogsBy(CriteriaOf(clientId), limit, offset)

\* The limit of a query that gives none: undefined.
NoLimit == 0 - 1

\* queryAuditLogs(query): the criteria object is built with the four keys,
\* whatever the query gave; an undefined limit takes the default of queryLogs.
AuditLogCriteria(query) ==
    [keys |-> {"clientId", "operation", "resource", "status"},
     clientId |-> query.clientId, operation |-> query.operation,
     resource |-> query.resource, status |-> query.status]

queryAuditLogs(query) ==
    queryLogsBy(AuditLogCriteria(query),
                IF query.limit = NoLimit THEN 100 ELSE query.limit, 0)

-----------------------------------------------------------------------------
(* The request and the middleware chain (security/index.ts) *)

\* req.body.method is written as the prefix that the middleware tests with
\* startsWith and the rest of the name; an unknown method has no prefix.
ToolPrefixes == {"firestore_", "storage_", "auth_"}

\* `${value}` for the argument values the model uses
SymbolsOf(v) ==
    CASE v = "s:users" -> <<"users">>
      [] v = "s:doc1" -> <<"doc1">>
      [] v = "s:files" -> <<"files">>
      [] OTHER -> <<"*">>

\* params.name || "*"
ArgOrStar(arguments, name) ==
    IF Falsy(Lookup(arguments, name)) THEN <<"*">>
    ELSE SymbolsOf(arguments[name])

\* Lines 251-272 of checkAccessMiddleware: the action of a request
ActionOf(body) ==
    IF body.prefix \in ToolPrefixes THEN body.rest ELSE "unknown"

\* Lines 251-272 of checkAccessMiddleware: the resource of a request
ResourceOf(body) ==
    CASE body.prefix = "firestore_" ->
            <<"firestore", "/", "collection", "/">>
                \o ArgOrStar(body.arguments, "collection")
                \o (IF Falsy(Lookup(body.arguments, "id")) THEN <<>>
                    ELSE <<"/", "document", "/">> \o SymbolsOf(body.arguments["id"]))
      [] body.prefix = "storage_" ->
            <<"storage", "/">>
                \o (IF ~Falsy(Lookup(body.arguments, "filePath"))
                    THEN SymbolsOf(body.arguments["filePath"])
                    ELSE ArgOrStar(body.arguments, "directoryPath"))
      [] body.prefix = "auth_" ->
            <<"auth", "/">> \o ArgOrStar(body.arguments, "identifier")
      [] OTHER -> <<>>

\* The request bodies the callers of the model send.
Bodies ==
    {[prefix |-> "firestore_", rest |-> "get_document",
      arguments |-> [collection |-> "s:users"]],
     [prefix |-> "storage_", rest |-> "list_files",
      arguments |-> <<>>]}

\* The stack applySecurityMiddleware builds with app.use, in its order.
SecurityMiddleware == <<"authenticate", "checkAccess", "rateLimit", "audit">>

\* The stack of an application that uses AuthMiddleware.authenticate alone.
AuthOnly == <<"authenticate">>

\* After the last middleware the request reaches the route that runs the
\* protected operation.
StageAfter(stage) ==
    LET i == CHOOSE k \in 1..Len(app) : app[k] = stage
    IN  IF i < Len(app) THEN app[i + 1] ELSE "handler"

\* A chain that would go on to the next middleware whatever it is handed.
DispatchIgnoringError(stage, err) ==
    StageAfter(stage)

\* Express: next() hands the request to the next middleware, next(err) skips
\* every remaining middleware and ends in the error handler.
Dispatch(stage, err) ==
    IF err # NoError THEN "errorHandler" ELSE StageAfter(stage)

NewCtx ==
    [auth |-> NoAuth, err |-> NoError, headers |-> {}, mode |-> None,
     minted |-> NoSid, stages |-> <<>>, hooked |-> FALSE, logged |-> 0,
     status |-> 0]

\* A token signed with another secret.
ForgedToken == [clientId |-> "c1", exp |-> 0, sig |-> "forged"]

NoRequest ==
    [ip |-> "ip1", clientId |-> None, apiKey |-> None, sessionId |-> NoSid,
     token |-> NoToken, body |-> CHOOSE b \in Bodies : b.prefix = "firestore_"]

\* The requests sent to an application that authenticates only: every
\* combination of the four credential headers.
AuthRequests ==
    [ip : Ips,
     clientId : ClientIds \cup {None},
     apiKey : ApiKeys \cup {None},
     sessionId : (1..MaxSessions) \cup {NoSid},
     token : issuedTokens \cup {NoToken, ForgedToken},
     body : {NoRequest.body}]

\* The requests sent to it where the lockout is followed: client c1 or no
\* client id, a right or a wrong key, the first session, a forged token.
LockoutRequests ==
    [ip : Ips,
     clientId : {None, "c1"},
     apiKey : ApiKeys \cup {None},
     sessionId : {NoSid, 1},
     token : {NoToken, ForgedToken},
     body : {NoRequest.body}]

\* The requests sent through the whole chain: each carries at most one kind
\* of credential (a session id, a client id with or without a key, a token).
Requests ==
    {r \in [ip : Ips,
            clientId : ClientIds \cup {None},
            apiKey : {None, "k1"},
            sessionId : {NoSid, 1},
            token : issuedTokens \cup {NoToken},
            body : Bodies] :
        /\ r.sessionId # NoSid => r.clientId = None /\ r.token = NoToken
        /\ r.token # NoToken => r.clientId = None
        /\ r.apiKey # None => r.clientId # None}

\* A request arrives.  Session identifiers are random: the model has
\* MaxSessions of them, so a request that could mint one waits for a free one.
Receive(r) ==
    /\ pc = "idle"
    /\ budget > 0
    /\ ModeOf(r) \in {"apiKey", "token"} => nextSid <= MaxSessions
    /\ req' = r
    /\ ctx' = NewCtx
    /\ pc' = app[1]
    /\ budget' = budget - 1
    /\ UNCHANGED <<envVars, authVars, accessVars, limiterVars, auditVars, app>>

\* The times at which authenticate recorded a failed attempt for ipKey.
FailuresOf(ipKey) == IF ipKey \in DOMAIN failures THEN failures[ipKey] ELSE <<>>

\* AuthMiddleware.authenticate
Authenticate ==
    /\ pc = "authenticate"
    /\ LET out == AuthOutcome(req)
       IN  /\ failedAttempts' = out.fa
           /\ sessions' = out.sessions
           /\ nextSid' = IF out.minted # NoSid THEN nextSid + 1 ELSE nextSid
           /\ issuedTokens' = IF out.minted # NoSid
                              THEN issuedTokens \cup {out.sessions[out.minted].token}
                              ELSE issuedTokens
           /\ mintedActive' =
                IF /\ out.minted # NoSid
                   /\ out.auth.clientId \in DOMAIN mgrClients
                   /\ mgrClients[out.auth.clientId].status = "active"
                THEN mintedActive \cup {out.minted}
                ELSE mintedActive
           /\ failures' = IF out.recorded
                          THEN Put(failures, IpKeyOf(req),
                                   Append(FailuresOf(IpKeyOf(req)), now))
                          ELSE failures
           /\ ctx' = [ctx EXCEPT !.auth = out.auth, !.err = out.err,
                                 !.headers = @ \cup out.headers,
                                 !.mode = out.mode, !.minted = out.minted,
                                 !.stages = Append(@, "authenticate")]
           /\ pc' = Dispatch("authenticate", out.err)
    /\ UNCHANGED <<envVars, dirVars, accessVars, limiterVars, auditVars, req, app,
                   budget>>

\* AccessControl.checkAccessMiddleware
AccessError ==
    IF ctx.auth = NoAuth \/ ctx.auth.clientId = None
    THEN [code |-> "MethodNotFound",
          message |-> "Authentication required for access control"]
    ELSE IF ~checkAccess(ctx.auth.clientId, ResourceOf(req.body),
                         ActionOf(req.body), req.body.arguments)
    THEN [code |-> "MethodNotFound", message |-> "Access denied"]
    ELSE NoError

CheckAccessMiddleware ==
    /\ pc = "checkAccess"
    /\ ctx' = [ctx EXCEPT !.err = AccessError,
                          !.stages = Append(@, "checkAccess")]
    /\ pc' = Dispatch("checkAccess", AccessError)
    /\ UNCHANGED <<envVars, authVars, accessVars, limiterVars, auditVars, req, app, budget>>

\* req.operation || "*": nothing in the repository sets req.operation
OperationOf(r) == "*"

\* RateLimiter.rateLimitMiddleware
RateLimitMiddleware ==
    /\ pc = "rateLimit"
    /\ IF ctx.auth = NoAuth \/ ctx.auth.clientId = None
       THEN /\ ctx' = [ctx EXCEPT !.stages = Append(@, "rateLimit")]
            /\ pc' = Dispatch("rateLimit", NoError)
            /\ UNCHANGED <<buckets, served>>
       ELSE LET res == checkLimit(buckets, ctx.auth.clientId, OperationOf(req))
                err == IF res.ok THEN NoError
                       ELSE [code |-> "RateLimitExceeded",
                             message |-> "Rate limit exceeded"]
            IN  /\ buckets' = res.buckets
                /\ served' = IF res.ok
                             THEN served \cup {<<ctx.auth.clientId, ActionOf(req.body)>>}
                             ELSE served
                /\ ctx' = [ctx EXCEPT
                             !.err = err,
                             !.headers = IF res.ok THEN @ ELSE @ \cup {"Retry-After"},
                             !.stages = Append(@, "rateLimit")]
                /\ pc' = Dispatch("rateLimit", err)
    /\ UNCHANGED <<envVars, authVars, accessVars, clientLimits, rlCall, auditVars,
                   req, app, budget>>

\* AuditLogger.auditMiddleware: it wraps res.send and res.json and listens
\* for "finish"; nothing is logged before the response is written.
AuditMiddleware ==
    /\ pc = "audit"
    /\ ctx' = [ctx EXCEPT !.hooked = TRUE, !.stages = Append(@, "audit")]
    /\ pc' = Dispatch("audit", NoError)
    /\ UNCHANGED <<envVars, authVars, accessVars, limiterVars, auditVars, req, app, budget>>

\* The entry the audit hooks pass to auditLogger.log for the request.
AuditEntry(status) ==
    [clientId |-> IF ctx.auth.clientId = None THEN "anonymous" ELSE ctx.auth.clientId,
     operation |-> req.body.rest,
     status |-> IF status >= 400 THEN "error" ELSE "success",
     metadata |-> Obj(<< <<(<<"ip">>), Str(req.ip)>> >>)]

\* How many times the hooks call auditLogger.log when the response is
\* written with `method`: res.json logs and calls res.send, res.send logs,
\* and the "finish" listener logs once the response has gone out.
LogCalls(method) ==
    IF ~ctx.hooked THEN 0
    ELSE CASE method = "json" -> 3
           [] method = "send" -> 2
           [] OTHER -> 1

ResponseMethods == {"send", "json", "end"}

Finish(method, status, stage) ==
    LET n == LogCalls(method)
    IN  /\ \E big \in BOOLEAN :
              LoggerBecomes(AuditLogTimes(LogState, AuditEntry(status), n, big))
        /\ ctx' = [ctx EXCEPT !.logged = @ + n, !.status = status,
                              !.stages = Append(@, stage)]
        /\ req' = NoRequest
        /\ pc' = "done"

\* The protected operation runs and its result is written as the response.
Handler(method) ==
    /\ pc = "handler"
    /\ Finish(method, 200, "handler")
    /\ UNCHANGED <<envVars, authVars, accessVars, limiterVars, app, budget>>

\* Express's final handler answers a request whose chain ended in next(err):
\* it sets the status and writes the message with res.end.
ErrorHandler ==
    /\ pc = "errorHandler"
    /\ Finish("end", 500, "errorHandler")
    /\ UNCHANGED <<envVars, authVars, accessVars, limiterVars, app, budget>>

\* The response has gone out; the server is ready for the next request.
Return ==
    /\ pc = "done"
    /\ pc' = "idle"
    /\ ctx' = NewCtx
    /\ UNCHANGED <<envVars, authVars, accessVars, limiterVars, auditVars, req, app, budget>>

-----------------------------------------------------------------------------
(* Timers, administration and the clock; they run between requests *)

\* Date.now() advances in steps of the lockout window (15 minutes).
TickMs == LockoutWindowMs

TickBy(ms) ==
    /\ pc = "idle"
    /\ ticks > 0
    /\ now' = now + ms
    /\ ticks' = ticks - 1
    /\ UNCHANGED <<authVars, accessVars, limiterVars, auditVars, reqVars>>

Tick == TickBy(TickMs)

\* Where sessions are followed to their expiry, Date.now() advances in steps
\* of half the lifetime of a session (30 minutes).
SessionTickMs == (tokenExpirationMinutes * 60 * 1000) \div 2

SessionTick == TickBy(SessionTickMs)

\* A sweep that would drop every session, expired or not.
cleanupAllSessions ==
    /\ pc = "idle"
    /\ sessions' = [id \in {} |-> sessions[id]]
    /\ UNCHANGED <<envVars, dirVars, sessVars, accessVars, limiterVars, auditVars,
                   reqVars>>

\* AuthMiddleware.cleanupSessions, on the hourly timer
cleanupSessions ==
    /\ pc = "idle"
    /\ sessions' = [id \in {i \in DOMAIN sessions : ~(sessions[i].expiresAt < now)}
                      |-> sessions[id]]
    /\ UNCHANGED <<envVars, dirVars, sessVars, accessVars, limiterVars, auditVars,
                   reqVars>>

\* RateLimiter.cleanupBuckets, on the one-minute timer
BucketIdleMs == 10 * 60 * 1000

cleanupBuckets ==
    /\ pc = "idle"
    /\ buckets' = [k \in {b \in DOMAIN buckets :
                             ~(now - buckets[b].lastRefill > BucketIdleMs)}
                     |-> buckets[k]]
    /\ UNCHANGED <<envVars, authVars, accessVars, clientLimits, rlCall, served,
                   auditVars, reqVars>>

\* A worker that would return after its await whatever the queue holds.
WorkerReturns ==
    /\ pc = "idle"
    /\ drainLoops > 0
    /\ LoggerBecomes([LogState EXCEPT !.isProcessingQueue = FALSE,
                                      !.drainLoops = @ - 1])
    /\ UNCHANGED <<envVars, authVars, accessVars, limiterVars, reqVars>>

\* processLogQueue resumes after its await: it writes the next batch, or
\* finds the queue empty and gives the flag back.
WorkerResume ==
    /\ pc = "idle"
    /\ drainLoops > 0
    /\ LET n == Min(BatchSize, Len(logQueue))
       IN  \E big \in BOOLEAN :
             LoggerBecomes(
               IF n > 0
               THEN [writeLogs(LogState, SubSeq(logQueue, 1, n), big) EXCEPT
                       !.logQueue = SubSeq(logQueue, n + 1, Len(logQueue))]
               ELSE [LogState EXCEPT !.isProcessingQueue = FALSE,
                                     !.drainLoops = @ - 1])
    /\ UNCHANGED <<envVars, authVars, accessVars, limiterVars, reqVars>>

\* security.addClient -> AuthMiddleware.addClient: the client is stored with
\* the hash of its key, in the middleware's own map.
addClient(clientId) ==
    /\ pc = "idle"
    /\ clientId \notin DOMAIN clients
    /\ clients' = Put(clients, clientId,
                      [clientId |-> clientId,
                       apiKey |-> hashApiKey(KeyOf(clientId)),
                       status |-> "active"])
    /\ UNCHANGED <<envVars, mgrClients, sessions, sessVars, accessVars, limiterVars,
                   auditVars, reqVars>>

\* AuthManager.generateApiKey: random bytes, a key no client on file has.
generateApiKey == "k3"

\* POST /clients -> AuthManager.addClient: the directory stores the client
\* with the generated key as it is, rewrites clients.json and returns the
\* record; AuthMiddleware.clients is a different map.
AuthManagerAddClient(clientId) ==
    /\ pc = "idle"
    /\ clientId \notin DOMAIN mgrClients
    /\ mgrClients' = Put(mgrClients, clientId,
                         [clientId |-> clientId, apiKey |-> generateApiKey,
                          status |-> "active"])
    /\ UNCHANGED <<envVars, clients, sessions, sessVars, accessVars, limiterVars,
                   auditVars, reqVars>>

\* A disabling that would also drop the sessions of the client.
disableClientAndSessions(clientId) ==
    /\ pc = "idle"
    /\ clientId \in DOMAIN mgrClients
    /\ mgrClients' = [mgrClients EXCEPT ![clientId].status = "disabled"]
    /\ sessions' = [id \in {i \in DOMAIN sessions : sessions[i].clientId # clientId}
                      |-> sessions[id]]
    /\ UNCHANGED <<envVars, clients, sessVars, accessVars, limiterVars,
                   auditVars, reqVars>>

\* AuthManager.disableClient: the directory's record is marked disabled (and
\* clients.json rewritten); AuthMiddleware.clients is a different map.
disableClient(clientId) ==
    /\ pc = "idle"
    /\ clientId \in DOMAIN mgrClients
    /\ mgrClients' = [mgrClients EXCEPT ![clientId].status = "disabled"]
    /\ UNCHANGED <<envVars, clients, sessions, sessVars, accessVars, limiterVars,
                   auditVars, reqVars>>

\* AuthManager.enableClient
enableClient(clientId) ==
    /\ pc = "idle"
    /\ clientId \in DOMAIN mgrClients
    /\ mgrClients' = [mgrClients EXCEPT ![clientId].status = "active"]
    /\ UNCHANGED <<envVars, clients, sessions, sessVars, accessVars, limiterVars,
                   auditVars, reqVars>>

-----------------------------------------------------------------------------
(* The audit logger used directly: log, flushLogs, queryLogs, the timers *)

MaxLogCalls == 3     \* SpecAudit: calls of a caller into auditLogger.log
MaxAuditDays == 1    \* SpecAudit: days that pass

\* The entries callers log, and how many times in a row: a caller logs one
\* entry, or SizeCheckEvery entries in one synchronous loop.
LogInputs ==
    {<<[clientId |-> "c1", operation |-> "get_document", status |-> "success",
       metadata |-> Obj(<<>>)], 1>>,
     <<[clientId |-> "c2", operation |-> "list_files", status |-> "error",
       metadata |-> Obj(<<>>)], 1>>,
     <<[clientId |-> "c1", operation |-> "get_document", status |-> "success",
       metadata |-> Obj(<<>>)],
       SizeCheckEvery>>}

\* auditLogger.log(entry), n times in a row.  The long loops are run while
\* the log is short, so that the size of the file is looked at once at most.
Log(entry, n) ==
    /\ pc = "idle"
    /\ budget > 0
    /\ n > 1 => Len(logFile) + Len(logQueue) < BatchSize
    /\ budget' = budget - 1
    /\ \E big \in BOOLEAN : LoggerBecomes(AuditLogTimes(LogState, entry, n, big))
    /\ UNCHANGED <<envVars, authVars, accessVars, limiterVars, req, ctx, pc, app>>

\* A day passes and the rotation timer set by setupLogRotation fires.
DayPasses ==
    /\ pc = "idle"
    /\ ticks > 0
    /\ now' = now + DayMs
    /\ ticks' = ticks - 1
    /\ LoggerBecomes([LogState EXCEPT !.currentLogStream = "null",
                                     !.currentLogFile = (now + DayMs) \div DayMs,
                                     !.logCount = 0])
    /\ UNCHANGED <<authVars, accessVars, limiterVars, reqVars>>

\* compressLogFile: the read stream has read the file to its end.
CompressRead ==
    /\ pc = "idle"
    /\ compressJob.state = "started"
    /\ LogName(compressJob.file) \in DOMAIN logDir
    /\ LoggerBecomes([LogState EXCEPT
                        !.compressJob = [@ EXCEPT
                            !.state = "read",
                            !.content = logDir[LogName(compressJob.file)]]])
    /\ UNCHANGED <<envVars, authVars, accessVars, limiterVars, reqVars>>

\* compressLogFile: the destination has finished and the callback unlinks
\* the original; a stream that is open on it keeps writing to the removed file.
CompressFinish ==
    /\ pc = "idle"
    /\ compressJob.state = "read"
    /\ LoggerBecomes([LogState EXCEPT
                        !.logDir = Put(Remove(@, LogName(compressJob.file)),
                                       GzName(compressJob.file), compressJob.content),
                        !.currentLogStream =
                            IF @ = "open" /\ currentLogFile = compressJob.file
                            THEN "unlinked" ELSE @,
                        !.compressJob = NoJob])
    /\ UNCHANGED <<envVars, authVars, accessVars, limiterVars, reqVars>>

\* flushLogs(true): the queue is written out and the stream is ended.
flushLogs ==
    /\ pc = "idle"
    /\ \E big \in BOOLEAN :
          LoggerBecomes([writeLogs(LogState, logQueue, big) EXCEPT
                           !.logQueue = <<>>,
                           !.currentLogStream = "null"])
    /\ UNCHANGED <<envVars, authVars, accessVars, limiterVars, reqVars>>

\* The limits and offsets queryLogs is called with.
QueryLimits == {2, Len(logFile)}
QueryOffsets == {0}

\* A caller asks queryLogs.
QueryLogs(clientId, limit, offset) ==
    /\ pc = "idle"
    /\ queryCall' = [called |-> TRUE, via |-> "queryLogs",
                     criteria |-> CriteriaOf(clientId), clientId |-> clientId,
                     limit |-> limit, offset |-> offset,
                     result |-> queryLogs(clientId, limit, offset)]
    /\ UNCHANGED <<envVars, authVars, accessVars, limiterVars, reqVars, logQueue,
                   isProcessingQueue, drainLoops, logFile, logDir, currentLogFile,
                   currentLogStream, logCount, compressJob, redactCall>>

-----------------------------------------------------------------------------
(* The rate limiter used directly: checkLimit, getWaitTime, setRateLimit *)

MaxLimiterTicks == 2    \* SpecLimiter: steps of the clock

\* Where buckets are followed, Date.now() advances by half a second: half a
\* token at 60 requests per minute.
LimiterTickMs == 500

\* The buckets asked for: a client with a configured global limit, on an
\* operation and on "*", and a client with no configured limit.
LimiterCalls == {<<"c1", "get_document">>, <<"c1", "*">>, <<"c2", "*">>}

\* The configurations setRateLimit is given.
LimitInputs == {[requestsPerMinute |-> 120, burstCapacity |-> 2]}

\* The limits setRateLimit is asked to set: the global one and an
\* operation's for a client of the limits file, an operation's for a client
\* that has no entry.
LimitTargets == {<<"c1", "*">>, <<"c1", "get_document">>, <<"c2", "get_document">>}

\* No checkLimit call is being followed.  `created` is whether the call
\* created the bucket, `streak` counts the calls made on the bucket since it
\* was created, while no time has passed and up to the first rejected one
\* (0 when the call is not one of these), `wait` is
\* what getWaitTime reports right after the call, `waited` is whether the
\* caller has since let the reported time pass, and `afterWait` whether the
\* call is the caller's next one after such a wait.
NoLimiterCall ==
    [called |-> FALSE, clientId |-> None, operation |-> None, ok |-> FALSE,
     wait |-> 0, created |-> FALSE, streak |-> 0, waited |-> FALSE,
     afterWait |-> FALSE]

\* A caller asks RateLimiter.checkLimit, then getWaitTime, as
\* rateLimitMiddleware does.
LimiterCall(clientId, operation) ==
    /\ pc = "idle"
    /\ LET key == <<clientId, operation>>
           res == checkLimit(buckets, clientId, operation)
           created == key \notin DOMAIN buckets
           streak == IF created THEN 1
                     ELSE IF /\ rlCall.called
                             /\ rlCall.clientId = clientId
                             /\ rlCall.operation = operation
                             /\ rlCall.streak > 0
                             /\ rlCall.ok
                          THEN rlCall.streak + 1
                          ELSE 0
       IN  /\ buckets' = res.buckets
           /\ rlCall' = [called |-> TRUE, clientId |-> clientId,
                         operation |-> operation, ok |-> res.ok,
                         wait |-> getWaitTime(res.buckets, clientId, operation),
                         created |-> created, streak |-> streak,
                         waited |-> FALSE,
                         afterWait |-> /\ rlCall.waited
                                       /\ rlCall.clientId = clientId
                                       /\ rlCall.operation = operation]
    /\ UNCHANGED <<envVars, authVars, accessVars, clientLimits, served, auditVars,
                   reqVars>>

\* RateLimiter.setRateLimit
setRateLimit(clientId, operation, config) ==
    /\ pc = "idle"
    /\ LET clientLimit ==
               IF clientId \in DOMAIN clientLimits THEN clientLimits[clientId]
               ELSE [clientId |-> clientId, operations |-> <<>>,
                     global |-> defaultLimits]
       IN  clientLimits' =
               Put(clientLimits, clientId,
                   IF operation = "*"
                   THEN [clientLimit EXCEPT !.global = config]
                   ELSE [clientLimit EXCEPT
                           !.operations = Put(@, operation, config)])
    /\ rlCall' = NoLimiterCall
    /\ UNCHANGED <<envVars, authVars, accessVars, buckets, served, auditVars,
                   reqVars>>

\* Time passes between two calls.
LimiterTick ==
    /\ pc = "idle"
    /\ ticks > 0
    /\ now' = now + LimiterTickMs
    /\ ticks' = ticks - 1
    /\ rlCall' = NoLimiterCall
    /\ UNCHANGED <<authVars, accessVars, clientLimits, buckets, served, auditVars,
                   reqVars>>

\* The caller whose call was rejected lets the reported time pass, or half
\* a second more, before it calls again.
LimiterWait ==
    /\ pc = "idle"
    /\ ticks > 0
    /\ rlCall.called
    /\ ~rlCall.ok
    /\ rlCall.wait > 0
    /\ \E extra \in {0, LimiterTickMs} : now' = now + rlCall.wait * 1000 + extra
    /\ ticks' = ticks - 1
    /\ rlCall' = [rlCall EXCEPT !.waited = TRUE]
    /\ UNCHANGED <<authVars, accessVars, clientLimits, buckets, served, auditVars,
                   reqVars>>

-----------------------------------------------------------------------------
(* The rule store used directly: addRule, removeRule and checkAccess *)

MaxRules == 2           \* SpecAccess: rules held by the store

RulePatterns ==
    {<<"firestore", "/", "collection", "/", "{", "name", "}">>,
     <<"firestore", "/", "collection", "/", "users">>,
     <<"*">>}

\* The rules the administrators of the model add; rules with conditions
\* are followed in SpecConditions.
RuleInputs ==
    [clientId : ClientIds,
     resource : RulePatterns,
     actions : {{"get_document"}, {"list_files", "get_document"}, {"*"}},
     conditions : {NoConditions}]

\* The resources, actions and contexts checkAccess is asked about.
CallResources ==
    {<<"firestore", "/", "collection", "/", "users">>,
     <<"storage", "/", "files", "/", "doc1">>}
CallActions == {"get_document", "list_files"}
CallContexts == {<<>>}

\* The index of the rule with this client and resource, or 0 (findIndex).
findIndex(rs, clientId, resource) ==
    LET hits == {i \in 1..Len(rs) :
                    rs[i].clientId = clientId /\ rs[i].resource = resource}
    IN  IF hits = {} THEN 0 ELSE CHOOSE i \in hits : \A j \in hits : i <= j

\* What is kept of an addRule call: the rule, and whether a rule with its
\* key was there already.
AddCall(rule, existingIndex) ==
    [NoCall EXCEPT !.action = "addRule", !.rule = rule,
                   !.result = existingIndex > 0]

\* An addRule that would push the rule whether or not its key is there.
addRuleAlwaysPush(rule) ==
    /\ pc = "idle"
    /\ rule.actions # {}
    /\ Len(rules) < MaxRules
    /\ rules' = Append(rules, rule)
    /\ acCall' = AddCall(rule, findIndex(rules, rule.clientId, rule.resource))
    /\ UNCHANGED <<envVars, authVars, rulesStore, matchCall, limiterVars, auditVars, reqVars>>

\* AccessControl.addRule: a rule with the same client and resource is
\* replaced where it stands, a new one is pushed.
addRule(rule) ==
    /\ pc = "idle"
    /\ rule.actions # {}
    /\ LET existingIndex == findIndex(rules, rule.clientId, rule.resource)
       IN  /\ IF existingIndex > 0
              THEN rules' = [rules EXCEPT ![existingIndex] = rule]
              ELSE /\ Len(rules) < MaxRules
                   /\ rules' = Append(rules, rule)
           /\ acCall' = AddCall(rule, existingIndex)
    /\ UNCHANGED <<envVars, authVars, rulesStore, matchCall, limiterVars, auditVars, reqVars>>

\* AccessControl.removeRule
removeRule(clientId, resource) ==
    /\ pc = "idle"
    /\ rules' = SelectSeq(rules, LAMBDA rule :
                    ~(rule.clientId = clientId /\ rule.resource = resource))
    /\ acCall' = NoCall
    /\ UNCHANGED <<envVars, authVars, rulesStore, matchCall, limiterVars, auditVars, reqVars>>

\* A caller asks AccessControl.checkAccess and keeps the answer.
CheckAccessCall(clientId, resource, action, context) ==
    /\ pc = "idle"
    /\ acCall' = [NoCall EXCEPT
                    !.called = TRUE, !.clientId = clientId,
                    !.resource = resource, !.action = action,
                    !.context = context,
                    !.result = checkAccess(clientId, resource, action, context)]
    /\ UNCHANGED <<envVars, authVars, rules, rulesStore, matchCall, limiterVars, auditVars,
                   reqVars>>

-----------------------------------------------------------------------------
(* checkAccess on rules that differ in their conditions only *)

MaxConditionRules == 2  \* SpecConditions: rules in the store

\* rule.conditions given without a fields member (a custom expression only)
CustomConditions == [defined |-> TRUE, hasFields |-> FALSE, fields |-> <<>>]

\* The conditions of the rules: none, one field, two fields, a custom
\* expression; the required values include false, 0 and the empty string.
ConditionInputs ==
    {NoConditions,
     CustomConditions,
     FieldConditions([tenant |-> "s:users"]),
     FieldConditions([archived |-> "b:false"]),
     FieldConditions([count |-> "n:0"]),
     FieldConditions([label |-> "s:"]),
     FieldConditions([tenant |-> "s:users", archived |-> "b:false"])}

\* The contexts of the calls (req.body.params.arguments).
ContextInputs ==
    {<<>>,
     [tenant |-> "s:users"],
     [tenant |-> "s:doc1"],
     [archived |-> "b:false"],
     [archived |-> "b:true"],
     [count |-> "n:0"],
     [label |-> "s:"],
     [tenant |-> "s:users", archived |-> "b:false"],
     [tenant |-> "s:users", archived |-> "b:true"]}

\* Rules of client c1 that match every resource and list get_document.
ConditionRules ==
    [clientId : {"c1"}, resource : {<<"*">>}, actions : {{"get_document"}},
     conditions : ConditionInputs]


MaxSegments == 2        \* SpecMatch: segments of a pattern; a resource may have one more

\* The segments of a pattern: a literal name, a {name} placeholder, "*".
PatternSegments == {<<"users">>, <<"doc1">>, <<"{", "name", "}">>, <<"*">>}

\* The segments of a resource: a name, a longer name, the empty segment.
ResourceSegments == {<<"users">>, <<"users", "doc1">>, <<>>}

SeqsUpTo(S, n) == UNION {[1..k -> S] : k \in 1..n}

\* The string whose path segments are segs: they are joined with "/".
RECURSIVE Join(_)
Join(segs) ==
    IF Len(segs) = 1 THEN segs[1]
    ELSE segs[1] \o <<"/">> \o Join(Tail(segs))

\* AccessControl.matchPattern is applied to a pattern and a resource.
MatchPatternCall(patternSegs, resourceSegs) ==
    /\ pc = "idle"
    /\ ~matchCall.called
    /\ matchCall' = [called |-> TRUE, pattern |-> patternSegs,
                     resource |-> resourceSegs,
                     result |-> matchPattern(Join(patternSegs), Join(resourceSegs))]
    /\ UNCHANGED <<envVars, authVars, rules, rulesStore, acCall, limiterVars, auditVars,
                   reqVars>>

-----------------------------------------------------------------------------
(* The state after construction *)

ClientRecord(clientId, status) ==
    [clientId |-> clientId, apiKey |-> hashApiKey(KeyOf(clientId)), status |-> status]

\* What clients.json may hold when the process starts: both loadClients read
\* the same file.
ClientsFile ==
    ("c1" :> ClientRecord("c1", "active")) @@ ("c2" :> ClientRecord("c2", "disabled"))

ActiveClientsFile ==
    ("c1" :> ClientRecord("c1", "active")) @@ ("c2" :> ClientRecord("c2", "active"))

\* access-rules.json
RulesFile ==
    <<[clientId |-> "c1",
       resource |-> <<"firestore", "/", "collection", "/", "{", "name", "}">>,
       actions |-> {"get_document"},
       conditions |-> NoConditions]>>

\* rate-limits.json: c1 may burst one request
LimitsFile ==
    ("c1" :> [clientId |-> "c1", operations |-> <<>>,
              global |-> [requestsPerMinute |-> 60, burstCapacity |-> 1]])

\* What AccessControl's constructor finds at options.rulesConfigPath: no
\* file, a file that cannot be read, text that is not JSON, JSON that is not
\* an array, or an array of entries.  An entry is a rule as written in the
\* file, with whether its actions member is an array.
ArrayStore(entries) == [kind |-> "array", entries |-> entries]
EntryOf(rule) ==
    [clientId |-> rule.clientId, resource |-> rule.resource,
     actions |-> rule.actions, conditions |-> rule.conditions,
     actionsIsArray |-> TRUE]
RuleOf(entry) ==
    [clientId |-> entry.clientId, resource |-> entry.resource,
     actions |-> entry.actions, conditions |-> entry.conditions]

\* The file the constructor read when it loaded the rules rs.
StoreOf(rs) == ArrayStore([i \in 1..Len(rs) |-> EntryOf(rs[i])])

\* A loadRules without its try/catch: a file that cannot be read or parsed
\* ends the constructor with the exception.
loadRulesUncaught(store) ==
    [rules |-> IF store.kind = "array"
               THEN [i \in 1..Len(store.entries) |-> RuleOf(store.entries[i])]
               ELSE <<>>,
     thrown |-> store.kind \in {"unreadable", "unparsable"}]

\* AccessControl.loadRules: the rules the constructor ends with, and whether
\* it ends with an exception.  readFileSync and JSON.parse throw inside the
\* try; a missing file is created empty; of an array the entries with a
\* clientId, a resource and an actions array are kept.
loadRules(store) ==
    [rules |-> IF store.kind = "array"
               THEN LET kept == SelectSeq(store.entries, LAMBDA entry :
                                    /\ entry.clientId \notin {None, ""}
                                    /\ entry.resource # <<>>
                                    /\ entry.actionsIsArray)
                    IN  [i \in 1..Len(kept) |-> RuleOf(kept[i])]
               ELSE <<>>,
     thrown |-> FALSE]

\* The stores right after the constructors have run, but for the rules.
StoresConstructed ==
    /\ now = 0
    /\ mgrClients = clients
    /\ sessions = <<>>
    /\ nextSid = 1
    /\ issuedTokens = {}
    /\ failedAttempts = <<>>
    /\ failures = <<>>
    /\ mintedActive = {}
    /\ acCall = NoCall
    /\ clientLimits = LimitsFile
    /\ buckets = <<>>
    /\ rlCall = NoLimiterCall
    /\ served = {}
    /\ logQueue = <<>>
    /\ isProcessingQueue = FALSE
    /\ drainLoops = 0
    /\ logFile = <<>>
    /\ logDir = <<>>
    /\ currentLogFile = 0
    /\ currentLogStream = "null"
    /\ logCount = 0
    /\ compressJob = NoJob
    /\ queryCall = NoQueryCall
    /\ redactCall = NoRedactCall
    /\ req = NoRequest
    /\ ctx = NewCtx

\* The stores right after the constructors have run, the rules read from a
\* file that holds them.
Constructed ==
    /\ StoresConstructed
    /\ rulesStore = StoreOf(rules)
    /\ pc = "idle"

(* Spec: the server with the whole chain of applySecurityMiddleware *)

Init ==
    /\ clients = ActiveClientsFile
    /\ matchCall = NoMatchCall
    /\ rules = RulesFile
    /\ Constructed
    /\ app = SecurityMiddleware
    /\ budget = MaxRequests
    /\ ticks = MaxTicks

Next ==
    \/ \E r \in Requests : Receive(r)
    \/ Authenticate
    \/ CheckAccessMiddleware
    \/ RateLimitMiddleware
    \/ AuditMiddleware
    \/ \E m \in ResponseMethods : Handler(m)
    \/ ErrorHandler
    \/ Return
    \/ Tick
    \/ cleanupSessions
    \/ cleanupBuckets
    \/ WorkerResume

Spec == Init /\ [][Next]_vars

(* SpecAuth: authenticate alone, long enough for the lockout *)

InitAuth ==
    /\ clients = ClientsFile
    /\ matchCall = NoMatchCall
    /\ rules = RulesFile
    /\ Constructed
    /\ app = AuthOnly
    /\ budget = MaxAuthRequests
    /\ ticks = MaxAuthTicks

NextAuth ==
    \/ \E r \in LockoutRequests : Receive(r)
    \/ Authenticate
    \/ \E m \in ResponseMethods : Handler(m)
    \/ ErrorHandler
    \/ Return
    \/ Tick

SpecAuth == InitAuth /\ [][NextAuth]_vars

(* SpecKeys: authenticate alone, with requests from IPv6 addresses and with *)
(* x-client-id headers of the sender's choosing                            *)

MaxKeyRequests == 6   \* SpecKeys: requests received

\* Two source addresses, one the other followed by ":1".
KeyIps == {"::1", "::1:1"}

\* The x-client-id headers sent: a client's id, and that id after "1:".
KeyClientIds == {"c1", "1:c1"}

\* The requests sent: none carries a credential, so each one that is not
\* refused as locked out records a failure (lines 335-337).
KeyRequests ==
    [ip : KeyIps,
     clientId : KeyClientIds \cup {None},
     apiKey : {None},
     sessionId : {NoSid},
     token : {NoToken},
     body : {NoRequest.body}]

InitKeys ==
    /\ clients = ClientsFile
    /\ matchCall = NoMatchCall
    /\ rules = RulesFile
    /\ Constructed
    /\ app = AuthOnly
    /\ budget = MaxKeyRequests
    /\ ticks = 0

NextKeys ==
    \/ \E r \in KeyRequests : Receive(r)
    \/ Authenticate
    \/ ErrorHandler
    \/ Return

SpecKeys == InitKeys /\ [][NextKeys]_vars

(* SpecDirectory: authenticate alone, with clients added through the *)
(* administrative directory                                          *)

MaxDirectoryRequests == 4   \* SpecDirectory: requests received

\* The client ids POST /clients is given: one on file, one new.
DirectoryClientIds == {"c1", "c3"}

\* The requests sent: a client id with a key handed out for a client on file
\* or with the key the directory generated.
DirectoryRequests ==
    [ip : Ips,
     clientId : DirectoryClientIds,
     apiKey : {"k1", generateApiKey},
     sessionId : {NoSid},
     token : {NoToken},
     body : {NoRequest.body}]

InitDirectory ==
    /\ clients = ClientsFile
    /\ matchCall = NoMatchCall
    /\ rules = RulesFile
    /\ Constructed
    /\ app = AuthOnly
    /\ budget = MaxDirectoryRequests
    /\ ticks = 0

NextDirectory ==
    \/ \E c \in DirectoryClientIds : AuthManagerAddClient(c)
    \/ \E r \in DirectoryRequests : Receive(r)
    \/ Authenticate
    \/ \E m \in ResponseMethods : Handler(m)
    \/ ErrorHandler
    \/ Return

SpecDirectory == InitDirectory /\ [][NextDirectory]_vars

(* SpecSession: authenticate alone, long enough for sessions to expire, with *)
(* the directory's administration                                           *)

InitSession ==
    /\ clients = ClientsFile
    /\ matchCall = NoMatchCall
    /\ rules = RulesFile
    /\ Constructed
    /\ app = AuthOnly
    /\ budget = MaxSessionRequests
    /\ ticks = MaxSessionTicks

NextSession ==
    \/ \E r \in AuthRequests : Receive(r)
    \/ Authenticate
    \/ \E m \in ResponseMethods : Handler(m)
    \/ ErrorHandler
    \/ Return
    \/ SessionTick
    \/ cleanupSessions
    \/ \E c \in ClientIds : disableClient(c)
    \/ \E c \in ClientIds : enableClient(c)

SpecSession == InitSession /\ [][NextSession]_vars

(* SpecSweep: SpecSession with its scheduling.  setInterval fires the sweep *)
(* every hour whatever the traffic, and a request that has entered the chain *)
(* is carried to its response.                                               *)

SweepFairness ==
    /\ WF_vars(cleanupSessions)
    /\ WF_vars(Authenticate)
    /\ WF_vars(\E m \in ResponseMethods : Handler(m))
    /\ WF_vars(ErrorHandler)
    /\ WF_vars(Return)

SpecSweep == InitSession /\ [][NextSession]_vars /\ SweepFairness

(* SpecAccess: the rule store, administered and queried directly *)

InitAccess ==
    /\ clients = ActiveClientsFile
    /\ matchCall = NoMatchCall
    /\ rules = <<>>
    /\ Constructed
    /\ app = SecurityMiddleware
    /\ budget = 0
    /\ ticks = 0

NextAccess ==
    \/ \E rule \in RuleInputs : addRule(rule)
    \/ \E c \in ClientIds, p \in RulePatterns : removeRule(c, p)
    \/ \E c \in ClientIds, r \in CallResources, a \in CallActions,
          x \in CallContexts : CheckAccessCall(c, r, a, x)

SpecAccess == InitAccess /\ [][NextAccess]_vars

\* The code the error taxonomy gives to the cause of the rejection at hand:
\* the stage that refused is the last one that ran.
C22_CodeOfCause ==
    LET stage == ctx.stages[Len(ctx.stages)]
    IN  IF stage = "authenticate"
        THEN IF ctx.mode = "locked" THEN "AccountLocked"
             ELSE IF ModeOf(req) = None THEN "AuthenticationRequired"
             ELSE "InvalidCredential"
        ELSE IF stage = "checkAccess" THEN "AccessDenied"
        ELSE "RateLimitExceeded"

\* Claim C22: a rejection carries the code of its cause: AuthenticationRequired
\* without a credential, InvalidCredential for a bad secret, token or session,
\* AccountLocked under lockout, AccessDenied when no rule permits,
\* RateLimitExceeded when the bucket is empty.
C22_RejectionCarriesCodeOfCause ==
    (pc = "errorHandler" /\ ctx.err # NoError) => ctx.err.code = C22_CodeOfCause

(* SpecOperations: the whole chain for a client allowed two tools *)

\* access-rules.json granting c1 both tools of Bodies on every resource
OperationsRulesFile ==
    <<[clientId |-> "c1",
       resource |-> <<"*">>,
       actions |-> {"get_document", "list_files"},
       conditions |-> NoConditions]>>

InitOperations ==
    /\ clients = ActiveClientsFile
    /\ matchCall = NoMatchCall
    /\ rules = OperationsRulesFile
    /\ Constructed
    /\ app = SecurityMiddleware
    /\ budget = MaxRequests
    /\ ticks = MaxTicks

SpecOperations == InitOperations /\ [][Next]_vars

\* Claim C17: in the chain the limit is kept per (caller, operation): a
\* request is rejected for its rate only when the same caller's earlier
\* requests for the same operation used up that operation's bucket, so the
\* first request of a caller for an operation is never rejected because of
\* its requests for another operation.
C17_RejectedOnlyAfterServingTheOperation ==
    (pc # "idle" /\ ctx.err.code = "RateLimitExceeded") =>
        <<ctx.auth.clientId, ActionOf(req.body)>> \in served

(* SpecAudit: the audit logger, written to and queried directly *)

InitAudit ==
    /\ clients = ActiveClientsFile
    /\ matchCall = NoMatchCall
    /\ rules = RulesFile
    /\ Constructed
    /\ app = SecurityMiddleware
    /\ budget = MaxLogCalls
    /\ ticks = MaxAuditDays

NextAudit ==
    \/ \E i \in LogInputs : Log(i[1], i[2])
    \/ WorkerResume
    \/ DayPasses
    \/ CompressRead
    \/ CompressFinish
    \/ flushLogs
    \/ \E c \in {None, "c2"}, limit \in QueryLimits, offset \in QueryOffsets :
          QueryLogs(c, limit, offset)

SpecAudit == InitAudit /\ [][NextAudit]_vars

(* SpecQuery: a few entries are logged and the log is queried, directly and *)
(* through queryAuditLogs                                                    *)

MaxQueryLogs == 3    \* SpecQuery: calls of a caller into auditLogger.log

\* The entries callers log.
QueryEntries ==
    {[clientId |-> "c1", operation |-> "get_document", status |-> "success",
      metadata |-> Obj(<<>>)],
     [clientId |-> "c2", operation |-> "list_files", status |-> "error",
      metadata |-> Obj(<<>>)],
     [clientId |-> "c1", operation |-> "list_files", status |-> "error",
      metadata |-> Obj(<<>>)]}

\* The criteria objects queryLogs is given: a caller puts in the keys it
\* filters on.
CriteriaInputs ==
    {NoCriteria,
     [NoCriteria EXCEPT !.keys = {"clientId"}, !.clientId = "c1"],
     [NoCriteria EXCEPT !.keys = {"operation"}, !.operation = "list_files"],
     [NoCriteria EXCEPT !.keys = {"clientId", "status"}, !.clientId = "c1",
                        !.status = "error"]}

\* The queries of GET /audit-logs: a parameter the URL does not carry is
\* undefined.
AuditLogQueries ==
    [clientId : {None, "c1"}, operation : {None, "list_files"},
     resource : {None, "unknown"}, status : {None, "error"}, limit : {NoLimit, 1}]

\* A caller asks queryLogs(criteria, limit, offset).
QueryLogsBy(criteria, limit, offset) ==
    /\ pc = "idle"
    /\ queryCall' = [called |-> TRUE, via |-> "queryLogs", criteria |-> criteria,
                     clientId |-> criteria.clientId,
                     limit |-> limit, offset |-> offset,
                     result |-> queryLogsBy(criteria, limit, offset)]
    /\ UNCHANGED <<envVars, authVars, accessVars, limiterVars, reqVars, logQueue,
                   isProcessingQueue, drainLoops, logFile, logDir, currentLogFile,
                   currentLogStream, logCount, compressJob, redactCall>>

\* GET /audit-logs calls queryAuditLogs(query).
QueryAuditLogs(query) ==
    /\ pc = "idle"
    /\ queryCall' = [called |-> TRUE, via |-> "queryAuditLogs",
                     criteria |-> AuditLogCriteria(query),
                     clientId |-> query.clientId,
                     limit |-> IF query.limit = NoLimit THEN 100 ELSE query.limit,
                     offset |-> 0,
                     result |-> queryAuditLogs(query)]
    /\ UNCHANGED <<envVars, authVars, accessVars, limiterVars, reqVars, logQueue,
                   isProcessingQueue, drainLoops, logFile, logDir, currentLogFile,
                   currentLogStream, logCount, compressJob, redactCall>>

InitQuery ==
    /\ clients = ActiveClientsFile
    /\ matchCall = NoMatchCall
    /\ rules = RulesFile
    /\ Constructed
    /\ app = SecurityMiddleware
    /\ budget = MaxQueryLogs
    /\ ticks = 1

NextQuery ==
    \/ \E entry \in QueryEntries : Log(entry, 1)
    \/ WorkerResume
    \/ DayPasses
    \/ \E criteria \in CriteriaInputs, limit \in {1, 100}, offset \in {0, 1} :
          QueryLogsBy(criteria, limit, offset)
    \/ \E query \in AuditLogQueries : QueryAuditLogs(query)

SpecQuery == InitQuery /\ [][NextQuery]_vars

(* SpecDrain: the queue of the audit logger, its worker and the synchronous *)
(* flush                                                                    *)

MaxDrainCalls == 3   \* SpecDrain: calls of a caller into auditLogger.log

\* The entries callers log, and how many times in a row: one entry, or a
\* burst of two batches and one entry more in one synchronous loop.
DrainInputs ==
    {<<[clientId |-> "c1", operation |-> "get_document", status |-> "success",
       metadata |-> Obj(<<>>)], 1>>,
     <<[clientId |-> "c2", operation |-> "list_files", status |-> "error",
       metadata |-> Obj(<<>>)], 1>>,
     <<[clientId |-> "c1", operation |-> "list_files", status |-> "success",
       metadata |-> Obj(<<>>)],
       2 * BatchSize + 1>>}

InitDrain ==
    /\ clients = ActiveClientsFile
    /\ matchCall = NoMatchCall
    /\ rules = RulesFile
    /\ Constructed
    /\ app = SecurityMiddleware
    /\ budget = MaxDrainCalls
    /\ ticks = 0

NextDrain ==
    \/ \E i \in DrainInputs : Log(i[1], i[2])
    \/ WorkerResume
    \/ flushLogs

SpecDrain == InitDrain /\ [][NextDrain]_vars

(* SpecDrainLive: SpecDrain with its scheduling.  The worker waits on a    *)
(* timer of 0 ms, which the event loop fires as long as the process runs.   *)

SpecDrainLive == InitDrain /\ [][NextDrain]_vars /\ WF_vars(WorkerResume)

\* The numbers of the lines a query returned.
ReturnedLines == {queryCall.result[i] : i \in 1..Len(queryCall.result)}

\* Claim C19: once the recorded entries are flushed (the queue is empty and
\* no compression is under way), a query with no filter and limit N, N being
\* the number of entries recorded, returns each of the N entries exactly
\* once, whatever rotations by the calendar or by size took place meanwhile.
C19_QueryReturnsEveryEntryOnce ==
    (/\ queryCall.called
     /\ queryCall.clientId = None
     /\ queryCall.offset = 0
     /\ queryCall.limit = Len(logFile)
     /\ logQueue = <<>>
     /\ compressJob = NoJob) =>
        /\ Len(queryCall.result) = Len(logFile)
        /\ ReturnedLines = 1..Len(logFile)

\* Claim C20: a query returns its entries newest first: of two entries of a
\* result the one recorded later comes earlier, also when both were written
\* to the same file.
C20_NewestFirst ==
    queryCall.called =>
        \A i, j \in 1..Len(queryCall.result) :
            i < j => queryCall.result[i] > queryCall.result[j]

(* SpecRedact: pairs of entries with metadata, logged and flushed *)

MaxRedactCalls == 2    \* SpecRedact: pairs of entries logged

\* The metadata callers pass: sensitive and other keys, at the top and
\* nested, holding strings, numbers, null and objects.
MetadataInputs ==
    {Obj(<< <<(<<"password">>), Str("s1")>> >>),
     Obj(<< <<(<<"password">>), Str("s2")>> >>),
     Obj(<< <<(<<"password">>), Num("7")>> >>),
     Obj(<< <<(<<"user", "Password">>), Str("s1")>> >>),
     Obj(<< <<(<<"user", "Password">>), Null>> >>),
     Obj(<< <<(<<"name">>), Str("s1")>> >>),
     Obj(<< <<(<<"name">>), Str("s2")>> >>),
     Obj(<< <<(<<"query">>), Obj(<< <<(<<"TOKEN">>), Str("s1")>> >>)>> >>),
     Obj(<< <<(<<"query">>), Obj(<< <<(<<"TOKEN">>), Str("s2")>> >>)>> >>),
     Obj(<< <<(<<"query">>),
              Obj(<< <<(<<"TOKEN">>), Obj(<< <<(<<"name">>), Str("s1")>> >>)>> >>)>> >>),
     Obj(<< <<(<<"items">>),
              Arr(<< <<(<<"0">>), Obj(<< <<(<<"api", "Key">>), Str("s1")>> >>)>> >>)>> >>),
     Obj(<< <<(<<"items">>),
              Arr(<< <<(<<"0">>), Obj(<< <<(<<"api", "Key">>), Str("s2")>> >>)>> >>)>> >>)}

RedactEntry(metadata) ==
    [clientId |-> "c1", operation |-> "get_document", status |-> "success",
     metadata |-> metadata]

\* A caller logs two entries and flushes: log(a); log(b); flushLogs(true).
LogPair(a, b) ==
    /\ pc = "idle"
    /\ budget > 0
    /\ budget' = budget - 1
    /\ \E big \in BOOLEAN :
          LET st == AuditLog(AuditLog(LogState, a, big), b, big)
          IN  LoggerIs([writeLogs(st, st.logQueue, big) EXCEPT
                          !.logQueue = <<>>,
                          !.currentLogStream = "null"])
    /\ redactCall' = [called |-> TRUE, first |-> Len(logFile) + Len(logQueue) + 1,
                      a |-> a, b |-> b]
    /\ queryCall' = NoQueryCall
    /\ UNCHANGED <<envVars, authVars, accessVars, limiterVars, req, ctx, pc, app>>

InitRedact ==
    /\ clients = ActiveClientsFile
    /\ matchCall = NoMatchCall
    /\ rules = RulesFile
    /\ Constructed
    /\ app = SecurityMiddleware
    /\ budget = MaxRedactCalls
    /\ ticks = 0

NextRedact ==
    \/ \E m, n \in MetadataInputs : LogPair(RedactEntry(m), RedactEntry(n))
    \/ WorkerResume

SpecRedact == InitRedact /\ [][NextRedact]_vars

\* The object with every value under a sensitive key, at any depth, left out.
RECURSIVE WithoutSensitiveValues(_)
WithoutSensitiveValues(obj) ==
    IF obj.t \notin {"object", "array"} THEN obj
    ELSE [obj EXCEPT
            !.kids = [i \in 1..Len(obj.kids) |->
                        <<obj.kids[i][1],
                          IF IsSensitiveKey(obj.kids[i][1]) THEN Null
                          ELSE WithoutSensitiveValues(obj.kids[i][2])>>]]

\* The two entries followed differ at most in values held under sensitive keys.
C21_SameButForSensitiveValues ==
    /\ redactCall.called
    /\ [redactCall.a EXCEPT !.metadata = Null] = [redactCall.b EXCEPT !.metadata = Null]
    /\ WithoutSensitiveValues(redactCall.a.metadata)
         = WithoutSensitiveValues(redactCall.b.metadata)

\* Claim C21: two entries that differ only in the values held under sensitive
\* keys, at any depth, are written as the same line: every such value is
\* replaced by one fixed marker.
C21_SensitiveValuesDoNotReachTheLine ==
    C21_SameButForSensitiveValues =>
        logFile[redactCall.first] = logFile[redactCall.first + 1]

(* SpecWait: the rate limiter and a caller that waits as long as it is told *)

MaxWaitTicks == 2    \* SpecWait: steps of the clock, waits included

InitWait ==
    /\ clients = ActiveClientsFile
    /\ matchCall = NoMatchCall
    /\ rules = RulesFile
    /\ Constructed
    /\ app = SecurityMiddleware
    /\ budget = 0
    /\ ticks = MaxWaitTicks

NextWait ==
    \/ \E k \in LimiterCalls : LimiterCall(k[1], k[2])
    \/ \E cfg \in LimitInputs : setRateLimit("c1", "*", cfg)
    \/ LimiterTick
    \/ LimiterWait
    \/ cleanupBuckets

SpecWait == InitWait /\ [][NextWait]_vars

\* Claim C33: when checkLimit rejects a call on a bucket of capacity 1 or
\* more, the wait time reported is at least one second, and the caller's
\* next call on that bucket, made after the reported time has passed and no
\* other call in between, is admitted.
C33_WaitThenAdmitted ==
    /\ (/\ rlCall.called
        /\ ~rlCall.ok
        /\ buckets[<<rlCall.clientId, rlCall.operation>>].capacity >= TokenScale)
           => rlCall.wait >= 1
    /\ (rlCall.called /\ rlCall.afterWait) => rlCall.ok

\* A call has just been admitted after its caller waited the time reported,
\* on a bucket that was not evicted meanwhile.
C33_Witness ==
    /\ rlCall.called
    /\ rlCall.afterWait
    /\ rlCall.ok
    /\ ~rlCall.created

(* SpecEvict: buckets are used up, left idle and swept *)

MaxEvictTicks == 1   \* SpecEvict: steps of the clock

\* Where the sweep is followed, Date.now() advances by 11 minutes: more than
\* the 10 minutes after which a bucket counts as idle.
EvictTickMs == 11 * 60 * 1000

\* A limit of one request per minute with bursts of up to twelve.
EvictLimit == [requestsPerMinute |-> 1, burstCapacity |-> 12]

EvictTick ==
    /\ pc = "idle"
    /\ ticks > 0
    /\ now' = now + EvictTickMs
    /\ ticks' = ticks - 1
    /\ rlCall' = NoLimiterCall
    /\ UNCHANGED <<authVars, accessVars, clientLimits, buckets, served, auditVars,
                   reqVars>>

InitEvict ==
    /\ clients = ActiveClientsFile
    /\ matchCall = NoMatchCall
    /\ rules = RulesFile
    /\ Constructed
    /\ app = SecurityMiddleware
    /\ budget = 0
    /\ ticks = MaxEvictTicks

NextEvict ==
    \/ \E c \in ClientIds : LimiterCall(c, "*")
    \/ setRateLimit("c1", "*", EvictLimit)
    \/ EvictTick
    \/ cleanupBuckets

SpecEvict == InitEvict /\ [][NextEvict]_vars

\* The bucket under key k was made from the configuration that holds now.
C34_SameConfiguration(k) ==
    /\ buckets[k].capacity = NewBucket(k[1], k[2]).capacity
    /\ buckets[k].refillRate = NewBucket(k[1], k[2]).refillRate

\* Claim C34: with a fixed configuration the sweep grants nothing: a bucket
\* it evicts would by now hold, had it been kept, the tokens the bucket made
\* in its place starts with, so that no more than C + r*T requests are
\* admitted in a time T.
C34_SweepStep ==
    \A k \in DOMAIN buckets \ DOMAIN buckets' :
        C34_SameConfiguration(k)
            => NewBucket(k[1], k[2]).tokens <= refillBucket(buckets[k]).tokens

C34_EvictionGrantsNoTokens == [][C34_SweepStep]_vars

(* SpecLimiter: the rate limiter, configured and queried directly *)

InitLimiter ==
    /\ clients = ActiveClientsFile
    /\ matchCall = NoMatchCall
    /\ rules = RulesFile
    /\ Constructed
    /\ app = SecurityMiddleware
    /\ budget = 0
    /\ ticks = MaxLimiterTicks

NextLimiter ==
    \/ \E k \in LimiterCalls : LimiterCall(k[1], k[2])
    \/ \E k \in LimitTargets, cfg \in LimitInputs : setRateLimit(k[1], k[2], cfg)
    \/ LimiterTick
    \/ cleanupBuckets

SpecLimiter == InitLimiter /\ [][NextLimiter]_vars

\* The bucket the followed call was made on.
CalledBucket == buckets[<<rlCall.clientId, rlCall.operation>>]

\* Claim C15: a newly created bucket with burst capacity C admits exactly C
\* immediate calls and rejects the next one; with capacity 10 and 60 requests
\* per minute the rejected 11th call is told to wait 1 second.
C15_BurstThenReject ==
    (rlCall.called /\ rlCall.streak > 0) =>
        LET C == CalledBucket.capacity \div TokenScale
        IN  /\ rlCall.streak <= C + 1
            /\ rlCall.ok <=> rlCall.streak <= C
            /\ (CalledBucket.capacity = 10 * TokenScale /\
                CalledBucket.refillRate = 60 /\ rlCall.streak = 11)
                   => (~rlCall.ok /\ rlCall.wait = 1)

C15_Witness ==
    /\ rlCall.called
    /\ rlCall.streak = 11
    /\ ~rlCall.ok
    /\ rlCall.wait = 1
    /\ CalledBucket.capacity = 10 * TokenScale
    /\ CalledBucket.refillRate = 60

C16_TokensInRange ==
    \A k \in DOMAIN buckets :
        buckets[k].tokens >= 0 /\ buckets[k].tokens <= buckets[k].capacity

\* The tokens a bucket holds once the time since its last refill is credited.
C16_Refilled(bucket) ==
    Min(bucket.capacity,
        bucket.tokens + (now - bucket.lastRefill) * bucket.refillRate)

C16_CheckStep ==
    \A k \in LimiterCalls :
        LimiterCall(k[1], k[2]) =>
            LET refilled == IF k \in DOMAIN buckets THEN C16_Refilled(buckets[k])
                            ELSE buckets'[k].capacity
            IN  /\ rlCall'.ok <=> refilled >= TokenScale
                /\ buckets'[k].tokens =
                       IF rlCall'.ok THEN refilled - TokenScale ELSE refilled
                /\ \A j \in DOMAIN buckets : j # k => buckets'[j] = buckets[j]

\* Claim C16: every bucket holds between 0 and its capacity in tokens; a check
\* first credits elapsed time times the refill rate, capped at the capacity,
\* then admits the call and removes exactly one token when at least one token
\* is there, and otherwise rejects the call and removes nothing.
C16_RefillThenTakeOne ==
    [](C16_TokensInRange) /\ [][C16_CheckStep]_vars

\* A call rejected on a bucket that time had refilled by half a token, next
\* to a bucket of capacity 2 that was left with one token for a second at 120
\* per minute and then admitted a call.
C16_Witness ==
    /\ rlCall.called
    /\ ~rlCall.ok
    /\ CalledBucket.lastRefill > 0
    /\ CalledBucket.tokens = TokenScale \div 2
    /\ \E k \in DOMAIN buckets :
          /\ buckets[k].capacity = 2 * TokenScale
          /\ buckets[k].tokens = TokenScale
          /\ buckets[k].lastRefill = 2 * LimiterTickMs

\* The configuration the stored limits hold for the followed call.
C18_Expected ==
    LET c == rlCall.clientId
        op == rlCall.operation
    IN  IF c \in DOMAIN clientLimits /\ op \in DOMAIN clientLimits[c].operations
        THEN clientLimits[c].operations[op]
        ELSE IF c \in DOMAIN clientLimits
             THEN clientLimits[c].global
             ELSE [requestsPerMinute |-> 60, burstCapacity |-> 10]

\* Claim C18: a bucket is created from the operation-specific configuration
\* of the client when there is one, else from the client's global ("*")
\* configuration, else from the default of 60 per minute with burst 10.
C18_BucketCreatedFromMostSpecificConfig ==
    (rlCall.called /\ rlCall.created) =>
        /\ CalledBucket.capacity = C18_Expected.burstCapacity * TokenScale
        /\ CalledBucket.refillRate = C18_Expected.requestsPerMinute
        /\ CalledBucket.tokens = CalledBucket.capacity - TokenScale

\* A bucket created from an operation-specific configuration that differs
\* from the client's global one.
C18_Witness ==
    /\ rlCall.called
    /\ rlCall.created
    /\ rlCall.clientId \in DOMAIN clientLimits
    /\ rlCall.operation \in DOMAIN clientLimits[rlCall.clientId].operations
    /\ clientLimits[rlCall.clientId].global.burstCapacity
          # clientLimits[rlCall.clientId].operations[rlCall.operation].burstCapacity
    /\ CalledBucket.capacity
          = clientLimits[rlCall.clientId].operations[rlCall.operation].burstCapacity
               * TokenScale

(* SpecConditions: checkAccess on a store of rules with conditions *)

InitConditions ==
    /\ clients = ActiveClientsFile
    /\ matchCall = NoMatchCall
    /\ rules \in SeqsUpTo(ConditionRules, MaxConditionRules)
    /\ Constructed
    /\ app = SecurityMiddleware
    /\ budget = 0
    /\ ticks = 0

NextConditions ==
    \E r \in CallResources, a \in CallActions, x \in ContextInputs :
        CheckAccessCall("c1", r, a, x)

SpecConditions == InitConditions /\ [][NextConditions]_vars

(* SpecStartup: checkAccess after a start on any state of the rules file *)

\* Entries of a rules file: two rules, an entry without clientId, one with an
\* empty resource, one whose actions member is not an array.
StoreEntries ==
    {EntryOf(RulesFile[1]),
     EntryOf([RulesFile[1] EXCEPT !.clientId = "c2", !.resource = <<"*">>]),
     [EntryOf(RulesFile[1]) EXCEPT !.clientId = None],
     [EntryOf(RulesFile[1]) EXCEPT !.resource = <<>>],
     [EntryOf(RulesFile[1]) EXCEPT !.actionsIsArray = FALSE]}

MaxStoreEntries == 2   \* SpecStartup: entries in the rules file

StoreInputs ==
    {[kind |-> k, entries |-> <<>>] :
        k \in {"missing", "unreadable", "unparsable", "notArray", "array"}}
    \cup {ArrayStore(es) : es \in SeqsUpTo(StoreEntries, MaxStoreEntries)}

InitStartup ==
    /\ clients = ActiveClientsFile
    /\ matchCall = NoMatchCall
    /\ rulesStore \in StoreInputs
    /\ rules = loadRules(rulesStore).rules
    /\ StoresConstructed
    /\ pc = IF loadRules(rulesStore).thrown THEN "crashed" ELSE "idle"
    /\ app = SecurityMiddleware
    /\ budget = 0
    /\ ticks = 0

NextStartup ==
    \E c \in ClientIds, r \in CallResources, a \in CallActions,
       x \in CallContexts : CheckAccessCall(c, r, a, x)

SpecStartup == InitStartup /\ [][NextStartup]_vars

(* SpecMatch: matchPattern on its own *)

InitMatch == InitAccess

NextMatch ==
    \E p \in SeqsUpTo(PatternSegments, MaxSegments),
       r \in SeqsUpTo(ResourceSegments, MaxSegments + 1) : MatchPatternCall(p, r)

SpecMatch == InitMatch /\ [][NextMatch]_vars

-----------------------------------------------------------------------------
(* Properties of the chain (Spec) *)

\* The request has been answered and the chain had refused it.
Rejected == pc = "done" /\ ctx.err # NoError

\* C1: every call the chain rejects at authentication, access control or
\* rate limiting still has an audit entry recorded for it: once its response
\* has gone out, auditLogger.log has run for it at least once.
C1_RejectedCallIsAudited ==
    Rejected => ctx.logged > 0

\* The middleware that ran for the request, without the final handler.
MiddlewareRun ==
    SelectSeq(ctx.stages, LAMBDA st : st \notin {"handler", "errorHandler"})

IsPrefix(a, b) == Len(a) <= Len(b) /\ SubSeq(b, 1, Len(a)) = a

\* The stages run in the order authenticate, access control, rate limit, and
\* the protected operation runs only for a call that none of them refused.
C2_StagesInOrder ==
    /\ IsPrefix(MiddlewareRun, SecurityMiddleware)
    /\ ctx.err # NoError =>
          /\ pc \in {"errorHandler", "done"}
          /\ "handler" \notin {ctx.stages[i] : i \in 1..Len(ctx.stages)}
    /\ pc = "handler" => ctx.stages = SecurityMiddleware /\ ctx.err = NoError

\* A step that takes a token or creates a bucket is the rate limiter's, for
\* a call that authentication and access control both let through; the only
\* other change to the buckets is the cleanup timer's, between requests.
C2_BucketsStep ==
    buckets' # buckets =>
        \/ /\ pc = "rateLimit"
           /\ ctx.stages = <<"authenticate", "checkAccess">>
           /\ ctx.err = NoError
           /\ ctx.auth # NoAuth
        \/ /\ pc = "idle"
           /\ DOMAIN buckets' \subseteq DOMAIN buckets
           /\ \A k \in DOMAIN buckets' : buckets'[k] = buckets[k]

\* C2: the chain runs authenticate, then access control, then the rate
\* limiter; a call rejected at authentication or access control takes no
\* rate-limit token and creates no bucket; no rejected call reaches the
\* protected operation.
C2_RejectedCallTouchesNoBucket ==
    [](C2_StagesInOrder) /\ [][C2_BucketsStep]_vars

\* A call was refused by access control while the limiter holds no bucket.
C2_Witness ==
    /\ pc = "done"
    /\ ctx.err # NoError
    /\ ctx.stages = <<"authenticate", "checkAccess", "errorHandler">>
    /\ buckets = <<>>

-----------------------------------------------------------------------------
(* Properties of authenticate (SpecAuth, SpecSession) *)

\* The request carries a client id and that client's secret, and nothing
\* that takes precedence over them.
CorrectSecret(r) ==
    /\ r.sessionId = NoSid
    /\ r.clientId \in DOMAIN clients
    /\ clients[r.clientId].status = "active"
    /\ r.apiKey = KeyOf(r.clientId)

\* The time of the n-th last failed attempt recorded for ipKey.
FailureBefore(ipKey, n) == FailuresOf(ipKey)[Len(FailuresOf(ipKey)) - n]

\* Five failed attempts in a row for the key of the request, all within the
\* lockout window, the last of them no longer ago than the window.
FiveRecentFailures(ipKey) ==
    /\ Len(FailuresOf(ipKey)) >= LockoutThreshold
    /\ FailureBefore(ipKey, 0) - FailureBefore(ipKey, LockoutThreshold - 1)
          <= LockoutWindowMs
    /\ now - FailureBefore(ipKey, 0) <= LockoutWindowMs

\* No failed attempt for the key, or the last one longer ago than the window.
WindowElapsed(ipKey) ==
    \/ FailuresOf(ipKey) = <<>>
    \/ now - FailureBefore(ipKey, 0) > LockoutWindowMs

C3_AuthenticateStep ==
    pc = "authenticate" =>
        /\ FiveRecentFailures(IpKeyOf(req)) =>
              /\ ctx'.mode = "locked"
              /\ ctx'.err # NoError
              /\ ctx'.minted = NoSid
              /\ pc' = "errorHandler"
        /\ (WindowElapsed(IpKeyOf(req)) /\ CorrectSecret(req)) =>
              /\ ctx'.err = NoError
              /\ ctx'.minted # NoSid
              /\ ctx'.auth.clientId = req.clientId
              /\ pc' = "handler"

C3_Recovered ==
    /\ pc = "handler"
    /\ ctx.minted # NoSid
    /\ CorrectSecret(req)
    /\ Len(FailuresOf(IpKeyOf(req))) >= LockoutThreshold

\* How many failed attempts were recorded for ipKey in the 15 minutes before now.
RecentFailures(ipKey) ==
    Cardinality({i \in 1..Len(FailuresOf(ipKey)) :
                    now - FailuresOf(ipKey)[i] <= LockoutWindowMs})

C4_AuthenticateStep ==
    pc = "authenticate" =>
        /\ ctx'.mode = "locked" <=> RecentFailures(IpKeyOf(req)) >= LockoutThreshold
        /\ ctx'.mode = "locked" =>
              /\ sessions' = sessions
              /\ failedAttempts' = failedAttempts
              /\ ctx'.minted = NoSid

\* C4: authenticate refuses a request as locked out exactly when at least
\* five failed attempts were recorded for its key within the preceding 15
\* minutes; a locked-out request is refused before any credential is
\* validated and creates or refreshes no session.
C4_LockedExactlyWhenFiveRecentFailures ==
    [][C4_AuthenticateStep]_vars

\* authenticate has just handled the request still held in req.
Authenticated == ctx.stages = <<"authenticate">>

\* C5: once a client is disabled through the directory, no authenticate call
\* that presents its identifier and its correct secret succeeds or mints a
\* session.
C5_DisabledClientIsRefused ==
    (/\ Authenticated
     /\ req.sessionId = NoSid
     /\ req.clientId \in DOMAIN mgrClients
     /\ mgrClients[req.clientId].status = "disabled"
     /\ req.apiKey = KeyOf(req.clientId))
        => (ctx.err # NoError /\ ctx.minted = NoSid)

\* The client is in the directory, and in the middleware's copy of it, and
\* active in both.
ActiveClient(c) ==
    /\ c \in DOMAIN mgrClients
    /\ mgrClients[c].status = "active"
    /\ c \in DOMAIN clients
    /\ clients[c].status = "active"

\* C6: every session is created for a client that exists in the directory
\* and is active at that moment, whichever credential brought it about.
C6_SessionCreatedForActiveClient ==
    (Authenticated /\ ctx.minted # NoSid)
        => ActiveClient(sessions[ctx.minted].clientId)

C7_AuthenticateStep ==
    (/\ pc = "authenticate"
     /\ req.sessionId \in DOMAIN sessions
     /\ ~(sessions[req.sessionId].expiresAt < now)
     /\ ~LockedOut(failedAttempts, IpKeyOf(req)))
        => /\ ctx'.err = NoError
           /\ ctx'.auth = [clientId |-> sessions[req.sessionId].clientId,
                           sessionId |-> req.sessionId]
           /\ pc' = "handler"

C7_DirectoryStep ==
    mgrClients' # mgrClients => sessions' = sessions

\* C7: a session issued before its client was disabled keeps authenticating
\* requests until its own expiresAt: disabling a client removes no session,
\* and a request with a session that has not expired is accepted whatever the
\* status of the client (short of the lockout of the request's source).
C7_DisablingRevokesNoSession ==
    [][C7_AuthenticateStep /\ C7_DirectoryStep]_vars

\* A session has just authenticated a request, at the very time it expires,
\* for a client that is disabled.
C7_Witness ==
    /\ pc = "handler"
    /\ Authenticated
    /\ req.sessionId \in DOMAIN sessions
    /\ ctx.auth.sessionId = req.sessionId
    /\ now = sessions[req.sessionId].expiresAt
    /\ mgrClients[ctx.auth.clientId].status = "disabled"

\* Claim C23: a session whose client was disabled after the session was
\* created is rejected when it is presented: no request is let through on a
\* session that was created while the directory had its client active, when
\* the directory has that client disabled.
C23_SessionOfDisabledClientIsRejected ==
    (/\ Authenticated
     /\ req.sessionId \in mintedActive
     /\ req.sessionId \in DOMAIN sessions
     /\ mgrClients[sessions[req.sessionId].clientId].status = "disabled")
        => ctx.err # NoError

\* No request is let through on a session that has expired.
C24_NoneAuthenticatedByExpiredSession ==
    (Authenticated /\ req.sessionId # NoSid /\ ctx.err = NoError)
        => /\ req.sessionId \in DOMAIN sessions
           /\ ~(sessions[req.sessionId].expiresAt < now)

\* The failure count of ipKey in counters fa, 0 when there is no entry.
CountOf(fa, ipKey) == IF ipKey \in DOMAIN fa THEN fa[ipKey].count ELSE 0

C24_AuthenticateStep ==
    (/\ pc = "authenticate"
     /\ req.sessionId \in DOMAIN sessions
     /\ sessions[req.sessionId].expiresAt < now)
        => /\ ctx'.err # NoError
           /\ ctx'.auth = NoAuth
           /\ pc' = "errorHandler"
           /\ ~LockedOut(failedAttempts, IpKeyOf(req))
                => /\ sessions' = Remove(sessions, req.sessionId)
                   /\ CountOf(failedAttempts', IpKeyOf(req))
                        = CountOf(ResetAfterWindow(failedAttempts, IpKeyOf(req)),
                                  IpKeyOf(req)) + 1
                   /\ failedAttempts'[IpKeyOf(req)].lastAttempt = now

\* C24: no request is authenticated through a session whose expiresAt is
\* earlier than the current time; a request presenting an expired session
\* fails, and when its credential is looked at (its source is not locked out)
\* the session is removed from the table and one failure is counted.
C24_ExpiredSessionIsRefusedAndRemoved ==
    [](C24_NoneAuthenticatedByExpiredSession) /\ [][C24_AuthenticateStep]_vars

\* An expired session has just been presented: the request is refused, the
\* session is gone and the failure is counted.
C24_Witness ==
    /\ pc = "errorHandler"
    /\ ctx.err.message = "Session expired"
    /\ req.sessionId \notin DOMAIN sessions
    /\ req.sessionId < nextSid
    /\ CountOf(failedAttempts, IpKeyOf(req)) >= 1

\* Between requests only the sweep changes the session table: what it drops
\* had expired, and what it keeps it keeps as it was.
C25_SweepStep ==
    (pc = "idle" /\ sessions' # sessions)
        => /\ DOMAIN sessions' \subseteq DOMAIN sessions
           /\ \A id \in DOMAIN sessions :
                 IF sessions[id].expiresAt < now
                 THEN id \notin DOMAIN sessions'
                 ELSE id \in DOMAIN sessions' /\ sessions'[id] = sessions[id]

C25_Expired(id) == id \in DOMAIN sessions /\ sessions[id].expiresAt < now

\* C25: a session whose expiresAt has passed is eventually removed from the
\* table, presented again or not, and the sweep removes no session that has
\* not expired.
C25_ExpiredSessionsAreSwept ==
    /\ \A id \in 1..MaxSessions : C25_Expired(id) ~> (id \notin DOMAIN sessions)
    /\ [][C25_SweepStep]_vars

\* The sweep has acted: a session is gone though no request was ever
\* refused, and a session that has not expired is still held.
C25_Witness ==
    /\ pc = "idle"
    /\ DOMAIN failures = {}
    /\ \E id \in 1..(nextSid - 1) : id \notin DOMAIN sessions
    /\ \E id \in DOMAIN sessions : ~(sessions[id].expiresAt < now)

\* The key's last recorded failure is more than 15 minutes old.
C26_Decayed(ipKey) ==
    /\ ipKey \in DOMAIN failedAttempts
    /\ now - failedAttempts[ipKey].lastAttempt > 15 * 60 * 1000

\* The count the attempt at hand finds for its key, time decay applied.
C26_CountFound(ipKey) ==
    IF C26_Decayed(ipKey) THEN 0 ELSE CountOf(failedAttempts, ipKey)

C26_AuthenticateStep ==
    LET ipKey == IpKeyOf(req)
    IN  pc = "authenticate" =>
          /\ \A k \in DOMAIN failedAttempts \ {ipKey} :
                k \in DOMAIN failedAttempts' /\ failedAttempts'[k] = failedAttempts[k]
          /\ DOMAIN failedAttempts' \subseteq DOMAIN failedAttempts \cup {ipKey}
          /\ ctx'.err = NoError =>
                /\ CountOf(failedAttempts', ipKey) = C26_CountFound(ipKey)
                /\ ipKey \in DOMAIN failedAttempts' =>
                      failedAttempts'[ipKey] = failedAttempts[ipKey]
          /\ (ctx'.err # NoError /\ ctx'.mode # "locked") =>
                /\ CountOf(failedAttempts', ipKey) = C26_CountFound(ipKey) + 1
                /\ failedAttempts'[ipKey].lastAttempt = now

\* C26: a successful authentication leaves the failure counter of its key as
\* it found it, neither reset nor decremented; every validation failure, a
\* request without credential included, adds one to it; a counter is dropped
\* only by an attempt that comes more than 15 minutes after the key's last
\* recorded failure, and no step other than authenticate touches a counter.
C26_SuccessKeepsTheFailureCount ==
    [][C26_AuthenticateStep /\ (pc # "authenticate" => failedAttempts' = failedAttempts)]_vars

\* A request has just been authenticated for a key with failures on record
\* that have not decayed: the count is still there.
C26_Witness ==
    /\ pc = "handler"
    /\ ctx.err = NoError
    /\ IpKeyOf(req) \in DOMAIN failedAttempts
    /\ failedAttempts[IpKeyOf(req)].count >= 2
    /\ now - failedAttempts[IpKeyOf(req)].lastAttempt <= 15 * 60 * 1000

\* The counter of key k as an attempt would find it: nothing once its last
\* failure is more than 15 minutes old.
C27_CounterFound(fa, k) ==
    IF k \in DOMAIN fa /\ ~(now - fa[k].lastAttempt > 15 * 60 * 1000)
    THEN fa[k]
    ELSE [count |-> 0, lastAttempt |-> 0]

C27_AuthenticateStep ==
    (/\ pc = "authenticate"
     /\ req.sessionId \in DOMAIN sessions
     /\ ~(sessions[req.sessionId].expiresAt < now)
     /\ ~LockedOut(failedAttempts, IpKeyOf(req)))
        => /\ DOMAIN sessions' = DOMAIN sessions
           /\ \A id \in DOMAIN sessions \ {req.sessionId} : sessions'[id] = sessions[id]
           /\ sessions'[req.sessionId] = [sessions[req.sessionId] EXCEPT !.lastUsed = now]
           /\ nextSid' = nextSid
           /\ issuedTokens' = issuedTokens
           /\ ctx'.minted = NoSid
           /\ \A k \in DOMAIN failedAttempts \cup DOMAIN failedAttempts' :
                 C27_CounterFound(failedAttempts', k) = C27_CounterFound(failedAttempts, k)
           /\ failures' = failures

C28_OneDrainLoop ==
    /\ drainLoops \in {0, 1}
    /\ isProcessingQueue <=> drainLoops = 1

\* The lines written so far followed by the lines the queue will give.
C28_WrittenThenQueued ==
    logFile \o [i \in 1..Len(logQueue) |-> sanitizeLog(logQueue[i])]

C28_Step ==
    IF budget' # budget
    THEN \E in \in DrainInputs :
            C28_WrittenThenQueued' =
                C28_WrittenThenQueued \o [i \in 1..in[2] |-> sanitizeLog(in[1])]
    ELSE C28_WrittenThenQueued' = C28_WrittenThenQueued

\* C28: the queue is drained by one worker: never are two drain loops under
\* way, and the entries passed to log are written once each and in the order
\* they were passed: every call of log adds its entries at the end of what is
\* written or queued, and every other step, the worker's batch and a
\* synchronous flush that runs while the worker waits included, only moves
\* entries from the head of the queue to the end of what is written.
C28_OneWorkerWritesEachEntryOnceInOrder ==
    [](C28_OneDrainLoop) /\ [][C28_Step]_vars

\* The stream is closed while the worker still holds the flag, and more than
\* the batch log wrote is written: flushLogs(true) ran while the worker
\* waited between two batches of a burst, and all of the burst is written.
C28_Witness ==
    /\ isProcessingQueue
    /\ drainLoops = 1
    /\ logQueue = <<>>
    /\ currentLogStream = "null"
    /\ Len(logFile) > 2 * BatchSize

\* Between two turns of the event loop, a queue that holds entries has its
\* worker under way.
C29_IdleWorkerMeansEmptyQueue ==
    ~isProcessingQueue => logQueue = <<>>

\* C29: every entry that is queued is eventually written: whenever no drain
\* worker is under way the queue is empty, and a queue that holds entries
\* is eventually empty, its entries written.
C29_QueuedEntriesAreEventuallyWritten ==
    /\ [](C29_IdleWorkerMeansEmptyQueue)
    /\ \A n \in {1, BatchSize + 1, 2 * BatchSize + 1} :
          (Len(logFile) + Len(logQueue) >= n) ~> (Len(logFile) >= n)
    /\ (logQueue # <<>>) ~> (logQueue = <<>> /\ ~isProcessingQueue)

\* The worker has written a burst to its end, batch after batch, and has
\* returned: the stream it wrote to is still open.
C29_Witness ==
    /\ ~isProcessingQueue
    /\ drainLoops = 0
    /\ logQueue = <<>>
    /\ currentLogStream = "open"
    /\ Len(logFile) > 2 * BatchSize

\* Claim C30: after a size check found the active file at its threshold, the
\* logger writes to a different file, and the file being compressed, to be
\* deleted when the archive is finished, is the replaced one: never the file
\* the logger is writing to.
C30_CompressedFileIsNotTheActiveFile ==
    compressJob # NoJob => compressJob.file # currentLogFile

\* The stored lines in the order queryLogs scans them.
C31_ScanOrder ==
    MatchesOfFiles(logDir, logFile, SortedReversed(DOMAIN logDir), NoCriteria)

\* What the query at hand is to return: the stored lines, in scan order, that
\* equal the filter on every criterion the caller provided, less the first
\* offset of them, limit of them at most.
C31_Expected ==
    LET Provided(i) ==
            \A key \in queryCall.criteria.keys :
                queryCall.criteria[key] # None
                    => FieldOf(logFile[i], key) = queryCall.criteria[key]
        matches == SelectSeq(C31_ScanOrder, Provided)
    IN  SubSeq(matches, queryCall.offset + 1,
               Min(Len(matches), queryCall.offset + queryCall.limit))

\* Claim C31: a query returns exactly the stored entries, in scan order, that
\* equal the filter on every criterion that was provided, skipping the first
\* offset matches and returning at most limit entries; a criterion left out
\* constrains nothing, through queryLogs and through queryAuditLogs alike.
C31_QueryReturnsTheMatches ==
    queryCall.called => queryCall.result = C31_Expected

\* The same of the queries made of queryLogs itself.
C31_DirectQueryReturnsTheMatches ==
    (queryCall.called /\ queryCall.via = "queryLogs")
        => queryCall.result = C31_Expected

\* Claim C32: a fresh authentication, by client id and secret or by bearer
\* token, answers with both the session-identifier header and the
\* signed-token header; an authentication by session identifier sets neither.
C32_FreshAuthenticationSetsBothHeaders ==
    (Authenticated /\ ctx.err = NoError)
        => IF ctx.mode = "session"
           THEN ctx.headers = {}
           ELSE ctx.headers = {"x-session-id", "x-auth-token"}

\* The same without the bearer token.
C32_ExceptByToken ==
    (Authenticated /\ ctx.err = NoError /\ ctx.mode # "token")
        => IF ctx.mode = "session"
           THEN ctx.headers = {}
           ELSE ctx.headers = {"x-session-id", "x-auth-token"}

\* Claim C35: once setRateLimit has set a configuration for a (client,
\* operation), every later checkLimit for the pair is decided on a bucket
\* with that configuration's burst capacity and refill rate, also when the
\* bucket existed before the change.
C35_CallDecidedWithTheConfiguration ==
    LET key == <<rlCall.clientId, rlCall.operation>>
    IN  (rlCall.called /\ key \in DOMAIN buckets)
            => /\ buckets[key].capacity = NewBucket(key[1], key[2]).capacity
               /\ buckets[key].refillRate = NewBucket(key[1], key[2]).refillRate

\* The pair a request's failures are counted under.
C36_KeyOf(r) == <<r.ip, IF r.clientId = None THEN "anonymous" ELSE r.clientId>>

\* Claim C36: a request refused as locked out leaves the failure counters as
\* they were, and the failures recorded for one request's (source address,
\* client id or "anonymous") never lock out a request with another pair.
C36_AuthenticateStep ==
    pc = "authenticate" =>
        /\ ctx'.mode = "locked" => failedAttempts' = failedAttempts
        /\ \A q \in KeyRequests :
              (/\ C36_KeyOf(q) # C36_KeyOf(req)
               /\ LockedOut(failedAttempts', IpKeyOf(q)))
                  => LockedOut(failedAttempts, IpKeyOf(q))

C36_LockoutIsPerKey == [][C36_AuthenticateStep]_vars

\* Claim C37: a client added through the administrative directory
\* authenticates with its client id and the credential the directory
\* returned for it.
C37_AddedClientAuthenticates ==
    (/\ Authenticated
     /\ ctx.mode # "locked"
     /\ req.sessionId = NoSid
     /\ req.clientId \in DOMAIN mgrClients \ DOMAIN ClientsFile
     /\ req.apiKey = mgrClients[req.clientId].apiKey)
        => ctx.err = NoError

\* The orderings of a list of rules.
C38_Orderings(rs) ==
    {[i \in 1..Len(rs) |-> rs[f[i]]] :
        f \in {g \in [1..Len(rs) -> 1..Len(rs)] :
                  \A i, j \in 1..Len(rs) : g[i] = g[j] => i = j}}

\* Claim C38: checkAccess depends on the set of stored rules only: on every
\* ordering of the stored rules it gives the answer it gave.
C38_OrderOfRulesIsIrrelevant ==
    acCall.called =>
        \A rs \in C38_Orderings(rules) :
            checkAccessIn(rs, acCall.clientId, acCall.resource, acCall.action,
                          acCall.context) = acCall.result

\* A call answered true over two matching rules of which the first does not
\* grant.
C38_Witness ==
    /\ acCall.called
    /\ acCall.result
    /\ LET matchingRules == MatchingRules(rules, acCall.clientId, acCall.resource,
                                          acCall.action)
       IN  /\ Len(matchingRules) = 2
           /\ ~RuleGrants(matchingRules[1], acCall.context)
           /\ RuleGrants(matchingRules[2], acCall.context)

\* Claim C39: a call that reached the audit stage and whose response is
\* finished has produced exactly one audit entry, whichever of send, json
\* and end wrote the response.
C39_OneEntryPerCompletedCall ==
    (pc = "done" /\ ctx.hooked) => ctx.logged = 1

\* Claim C40: when the rules file cannot be read or parsed at startup, the
\* process goes on with no rule, and under default-deny every checkAccess
\* answers false.
C40_UnreadableStoreDeniesAll ==
    rulesStore.kind \in {"unreadable", "unparsable"} =>
        /\ pc # "crashed"
        /\ rules = <<>>
        /\ (defaultDeny /\ acCall.called) => ~acCall.result

\* checkAccess has answered false after a start on a file that is not JSON.
C40_Witness ==
    /\ rulesStore.kind = "unparsable"
    /\ pc = "idle"
    /\ acCall.called
    /\ ~acCall.result

\* C8: every session has expiresAt - createdAt equal to the configured
\* validity window, tokenExpirationMinutes (60 by default) in milliseconds.
C8_SessionLifetimeIsTheWindow ==
    \A id \in DOMAIN sessions :
        sessions[id].expiresAt - sessions[id].createdAt
            = tokenExpirationMinutes * 60 * 1000

\* A session minted after the clock had moved is held, and has been used
\* since it was minted.
C8_Witness ==
    \E id \in DOMAIN sessions :
        /\ sessions[id].createdAt > 0
        /\ sessions[id].lastUsed > sessions[id].createdAt

C9_AuthenticateStep ==
    (pc = "authenticate" /\ ~LockedOut(failedAttempts, IpKeyOf(req))) =>
        IF req.sessionId # NoSid
        THEN /\ ctx'.err = NoError <=>
                    /\ req.sessionId \in DOMAIN sessions
                    /\ ~(sessions[req.sessionId].expiresAt < now)
             /\ ctx'.minted = NoSid
             /\ ctx'.headers = {}
        ELSE IF req.clientId # None /\ req.apiKey # None
        THEN /\ ctx'.err = NoError <=> validateApiKey(req.clientId, req.apiKey)
             /\ ctx'.err = NoError =>
                    /\ ctx'.auth.clientId = req.clientId
                    /\ ctx'.headers = {"x-session-id", "x-auth-token"}
        ELSE IF req.token # NoToken
        THEN /\ ctx'.err = NoError <=> verifyToken(req.token) # NullPayload
             /\ ctx'.err = NoError =>
                    /\ ctx'.auth.clientId = req.token.clientId
                    /\ ctx'.headers = {"x-session-id"}
        ELSE ctx'.err # NoError

\* C9: authenticate tries exactly one credential per request, by precedence:
\* the session id when there is one, else client id and secret when both are
\* there, else the bearer token; the credentials of lower precedence have no
\* part in the outcome.
C9_OneCredentialByPrecedence ==
    [][C9_AuthenticateStep]_vars

\* A request with an unknown session id was refused although it also carried
\* the correct secret of an active client and a token.
C9_Witness ==
    /\ pc = "errorHandler"
    /\ Authenticated
    /\ req.sessionId # NoSid
    /\ req.sessionId \notin DOMAIN sessions
    /\ validateApiKey(req.clientId, req.apiKey)
    /\ req.token # NoToken

-----------------------------------------------------------------------------
(* Properties of the rule store (SpecAccess) *)

\* C10: with default deny, checkAccess answers true only if a rule of that
\* same client matches the resource and lists the action; with no such rule
\* the answer is false, and a rule of another client never grants.
C10_GrantOnlyByOwnRule ==
    (acCall.called /\ acCall.result) =>
        \E i \in 1..Len(rules) :
            /\ rules[i].clientId = acCall.clientId
            /\ matchPattern(rules[i].resource, acCall.resource)
            /\ acCall.action \in rules[i].actions

\* checkAccess has refused a client while a rule of another client matches
\* the resource, lists the action and sets no condition.
C10_Witness ==
    /\ acCall.called
    /\ ~acCall.result
    /\ \E i \in 1..Len(rules) :
            /\ rules[i].clientId # acCall.clientId
            /\ matchPattern(rules[i].resource, acCall.resource)
            /\ acCall.action \in rules[i].actions
            /\ rules[i].conditions = NoConditions

-----------------------------------------------------------------------------
(* Properties of matchPattern (SpecMatch) *)

IsPlaceholder(seg) == Len(seg) = 3 /\ seg[1] = "{" /\ seg[3] = "}"

\* A {name} segment takes any one non-empty segment, a literal segment itself.
SegmentMatches(patternSeg, resourceSeg) ==
    IF IsPlaceholder(patternSeg) THEN resourceSeg # <<>>
    ELSE resourceSeg = patternSeg

HasStar(segs) == \E k \in 1..Len(segs) : segs[k] = <<"*">>

\* C11: a {name} placeholder matches exactly one non-empty path segment and
\* the pattern is matched against the whole resource: a pattern of literal
\* and {name} segments matches a resource exactly when both have the same
\* number of segments and each segment of the resource is the literal, or is
\* non-empty where the pattern has a placeholder.  So "a/b/{name}" matches
\* "a/b/users" and does not match "a/b/users/doc1".
C11_PlaceholderIsOneSegment ==
    (matchCall.called /\ ~HasStar(matchCall.pattern)) =>
        (matchCall.result <=>
            /\ Len(matchCall.resource) = Len(matchCall.pattern)
            /\ \A k \in 1..Len(matchCall.pattern) :
                  SegmentMatches(matchCall.pattern[k], matchCall.resource[k]))

\* A pattern that ends in a placeholder was refused a resource that goes on
\* for one more segment after the segments the pattern matches.
C11_Witness ==
    /\ matchCall.called
    /\ ~matchCall.result
    /\ ~HasStar(matchCall.pattern)
    /\ Len(matchCall.pattern) >= 2
    /\ IsPlaceholder(matchCall.pattern[Len(matchCall.pattern)])
    /\ Len(matchCall.resource) = Len(matchCall.pattern) + 1
    /\ \A k \in 1..Len(matchCall.pattern) :
          SegmentMatches(matchCall.pattern[k], matchCall.resource[k])

-----------------------------------------------------------------------------
(* More properties of the rule store (SpecAccess) *)

\* The wildcard action of a rule, as security.addAccessRule("admin", "*", ["*"])
\* writes it.
WildcardAction == "*"

\* C12: a rule whose actions contain the wildcard action permits every
\* action on the resources its pattern matches: a call for a client that has
\* an unconditional rule with the wildcard action and a matching pattern (as
\* the bootstrap rule with pattern "*" always is) is granted.
C12_WildcardActionPermitsEveryAction ==
    (/\ acCall.called
     /\ \E i \in 1..Len(rules) :
            /\ rules[i].clientId = acCall.clientId
            /\ matchPattern(rules[i].resource, acCall.resource)
            /\ WildcardAction \in rules[i].actions
            /\ rules[i].conditions = NoConditions)
        => acCall.result

-----------------------------------------------------------------------------
(* Properties of the conditions of rules (SpecConditions) *)

\* Every field condition of the rule equals what the context holds for it.
ConditionsHold(rule, context) ==
    \A field \in DOMAIN rule.conditions.fields :
        Lookup(context, field) = rule.conditions.fields[field]

\* The rules that match the call structurally: client, pattern and action.
StructuralMatches ==
    {i \in 1..Len(rules) :
        /\ rules[i].clientId = acCall.clientId
        /\ matchPattern(rules[i].resource, acCall.resource)
        /\ acCall.action \in rules[i].actions}

\* C13: when rules match structurally, checkAccess grants if and only if
\* one of them has no conditions or has every field condition equal to the
\* value the context holds for that field, whatever value is required
\* (false, 0 and the empty string included).  Stated for stores in which the
\* conditions of every matching rule, where it has any, are field conditions.
C13_GrantIffConditionsHold ==
    (/\ acCall.called
     /\ StructuralMatches # {}
     /\ \A i \in StructuralMatches :
            rules[i].conditions.defined => rules[i].conditions.hasFields) =>
        (acCall.result <=>
            \E i \in StructuralMatches :
                \/ ~rules[i].conditions.defined
                \/ ConditionsHold(rules[i], acCall.context))

-----------------------------------------------------------------------------
(* Properties of addRule and removeRule (SpecAccess) *)

\* The indices of the stored rules with this client and resource pattern.
RulesWithKey(rs, clientId, resource) ==
    {i \in 1..Len(rs) : rs[i].clientId = clientId /\ rs[i].resource = resource}

C14_UniqueKeys ==
    \A i, j \in 1..Len(rules) :
        (rules[i].clientId = rules[j].clientId
            /\ rules[i].resource = rules[j].resource) => i = j

\* C14: starting from an empty store, after any sequence of addRule and
\* removeRule calls no two stored rules share (clientId, resource pattern);
\* adding a rule whose key is there replaces that rule, so that right after
\* addRule exactly one rule with the key is stored and it is the rule of
\* that call.
C14_AddRuleReplacesByKey ==
    /\ C14_UniqueKeys
    /\ acCall.action = "addRule" =>
          /\ Cardinality(RulesWithKey(rules, acCall.rule.clientId,
                                      acCall.rule.resource)) = 1
          /\ \A i \in RulesWithKey(rules, acCall.rule.clientId,
                                   acCall.rule.resource) :
                rules[i] = acCall.rule

\* addRule has just replaced a rule, in a store that holds another rule too.
C14_Witness ==
    /\ acCall.action = "addRule"
    /\ acCall.result
    /\ Len(rules) = 2

====
